---- MODULE Spec2Model ----
(***************************************************************************)
(* The secure message protocol engine of client-server-with-encryption:    *)
(* admission control (concurrentOps), the nonce tracker                    *)
(* (globalNonceTracker) and the message codec (CreateSecureMessage,        *)
(* VerifyAndDecryptMessage), run by concurrent callers under a wall clock. *)
(*                                                                         *)
(* Time is counted in ticks, TicksPerSecond of them to a second:           *)
(* time.Now() is the tick count `now`, time.Now().Unix() is Unix(now).     *)
(* The program's numeric constants are scaled down (the source's values    *)
(* are given with each); the scaling keeps their order relations:          *)
(* NonceCleanupInterval > 2 * MaxTimeDifference, as 5 min > 2 * 30 s.      *)
(*                                                                         *)
(* Cryptographic primitives are external and taken as ideal: a ciphertext, *)
(* a MAC and a signature are symbolic terms that record the key and the    *)
(* data they were made from.                                               *)
(***************************************************************************)
EXTENDS Integers, Sequences, FiniteSets, TLC

\* ------------------------------------------------------------------ bounds
\* Number of concurrent callers (goroutines).
NumCallers == 3
\* Number of envelopes CreateSecureMessage is asked for, under Spec and in a burst.
MaxMessages == 1
MaxBurstMessages == 2
\* Number of nonce values a forger writes into envelopes, besides the drawn ones.
NumForgedNonces == 1
\* The clock stops at this many ticks.
MaxNow == 8
\* Ticks of the model clock in one second.
TicksPerSecond == 2
\* Number of round trips of one caller under SpecRoundTrip.
MaxRoundTrips == 2
\* Number of worker goroutines under SpecWorkers, which is also their cap on
\* in-flight operations, and the messages each of them sends.
NumWorkers == 2
MessagesPerWorker == 2
\* Number of client identifiers the rate limiter is asked about.
NumClients == 2
\* Private keys are drawn from 1 .. MaxPrivate.
MaxPrivate == 4
\* The private DH value the attacker draws.
AttackerDHPrivate == 3

\* Goroutines that call a tracker of their own making, the calls each makes,
\* the nonces they present and the largest maxSize they make it with.
NumThreads == 2
MaxCalls == 1
TrackerNonces == 2
MaxTrackerSize == 2

\* The longest byte string handed to PKCS7Pad and PKCS7Unpad.
MaxDataLen == 33

\* --------------------------------------------------------------- constants
\* securemessage.go:21 MaxTimeDifference = 30 (seconds), scaled.
MaxTimeDifference == 1
\* securemessage.go:22 NonceCleanupInterval = 5 * time.Minute, scaled, in seconds.
NonceCleanupSeconds == 3
\* securemessage.go:23 MaxNonceStorage = 10000, scaled.
MaxNonceStorage == 1
\* part_010:22 minOpInterval = 10 * time.Millisecond, scaled, in ticks.
minOpInterval == 2
\* part_010:40 the retention of the rate limiter, time.Minute, scaled, in ticks.
rateRetention == 4
\* sha256.Size, the length of sha256.Sum256's result.
Sha256Size == 32
\* part_007:29 the prime of RFC 3526 group 14, scaled to the safe prime 23.
DHPrime == 23
\* part_007:32 the generator, 2 (of order 11 modulo 23).
DHGenerator == 2
\* part_008:60 elliptic.P256(), scaled to y^2 = x^3 + 2x + 2 over GF(17), whose
\* base point (5, 1) has prime order 19.
CurveP == 17
CurveA == 2
CurveGx == 5
CurveGy == 1
CurveN == 19
\* part_011:12 NewTimingStats(1000), the measurements kept, scaled.
TimingMaxSize == 1
\* securemessage.go:18 AESKeySize.
AESKeySize == 32
\* aes.BlockSize.
BlockSize == 16

\* time.Duration of the cleanup interval, in ticks.
NonceCleanupInterval == NonceCleanupSeconds * TicksPerSecond

Callers == 1 .. NumCallers

\* time.Time.Unix(): whole seconds, truncated.
Unix(t) == t \div TicksPerSecond

\* ------------------------------------------------------------- byte strings
Nil == << >>

Repeat(b, n) == [i \in 1 .. n |-> b]

\* The 64-byte shared secret of the tests (make([]byte, 64); rand.Read).
sharedSecret == [i \in 1 .. 64 |-> IF i <= AESKeySize THEN 1 ELSE 2]
\* sharedSecret[:AESKeySize]
EncKey(secret) == SubSeq(secret, 1, AESKeySize)
\* sharedSecret[AESKeySize:]
MacKey(secret) == SubSeq(secret, AESKeySize + 1, Len(secret))

\* No padding added to data that already fills its blocks.
PKCS7Pad_NoFullBlock(data) ==
    LET pad == (BlockSize - (Len(data) % BlockSize)) % BlockSize
    IN  data \o Repeat(pad, pad)

PKCS7Pad(data) ==
    LET pad == BlockSize - (Len(data) % BlockSize)
    IN  data \o Repeat(pad, pad)

\* PKCS7Unpad returns (data, nil), (nil, error) or, when the pad count exceeds
\* the length, panics on data[i] with a negative index.
errEmptyData == "empty data"
errBadPadding == "invalid padding"

\* An unpadding that takes a pad count of a whole block for invalid.
PKCS7Unpad_NoFullBlock(data) ==
    IF Len(data) = 0 \/ data[Len(data)] >= BlockSize \/ data[Len(data)] = 0
                     \/ data[Len(data)] > Len(data)
    THEN [kind |-> "error", data |-> Nil, err |-> errBadPadding]
    ELSE [kind |-> "ok", data |-> SubSeq(data, 1, Len(data) - data[Len(data)]), err |-> ""]

PKCS7Unpad(data) ==
    IF Len(data) = 0
    THEN [kind |-> "error", data |-> Nil, err |-> errEmptyData]
    ELSE LET pad == data[Len(data)]
         IN  IF pad > BlockSize \/ pad = 0
             THEN [kind |-> "error", data |-> Nil, err |-> errBadPadding]
             ELSE IF pad > Len(data)
             THEN [kind |-> "panic", data |-> Nil, err |-> "index out of range"]
             ELSE IF \E i \in (Len(data) - pad + 1) .. Len(data) : data[i] # pad
             THEN [kind |-> "error", data |-> Nil, err |-> errBadPadding]
             ELSE [kind |-> "ok", data |-> SubSeq(data, 1, Len(data) - pad), err |-> ""]

\* ------------------------------------------------------ symbolic primitives
\* The empty byte string as a ciphertext, MAC or signature term.
NoTerm == [alg |-> "none", key |-> Nil, iv |-> Nil, data |-> Nil]

\* AES-256-CBC of the padded plaintext: the term records key, IV and the padded
\* blocks. Its length in bytes is Len(data).
CBCEncrypt(key, iv, padded) == [alg |-> "aes-cbc", key |-> key, iv |-> iv, data |-> padded]

\* The exclusive or of two bytes.
RECURSIVE BitXor(_, _)
BitXor(a, b) ==
    IF a = 0 THEN b
    ELSE IF b = 0 THEN a
    ELSE (2 * BitXor(a \div 2, b \div 2)) + ((a + b) % 2)

\* CBC decryption under the key that made the ciphertext: the first block is
\* the block decryption xor the IV given, so another IV changes the first
\* block by the xor of the two IVs and leaves the later blocks. Under another
\* key every block is garbage; the model writes a garbage block as bytes of
\* value 0, which PKCS7Unpad rejects.
CBCDecrypt(key, iv, cipher) ==
    IF cipher.alg = "aes-cbc" /\ cipher.key = key /\ Len(iv) = Len(cipher.iv)
    THEN [i \in 1 .. Len(cipher.data) |->
             IF i <= Len(iv)
             THEN BitXor(BitXor(cipher.data[i], cipher.iv[i]), iv[i])
             ELSE cipher.data[i]]
    ELSE Repeat(0, Len(cipher.data))

\* aes.NewCipher's KeySizeError
errKeySize == "crypto/aes: invalid key size"

\* AESDecrypt between ConcurrencyCheck and the deferred ConcurrencyRelease:
\* aes.NewCipher returns an error on a key of no AES size,
\* cipher.NewCBCDecrypter panics on an IV that is not one block long,
\* CryptBlocks on input that is not full blocks, PKCS7Unpad returns an error.
AESDecryptBody(key, iv, cipher) ==
    IF Len(key) \notin {16, 24, 32}
    THEN [kind |-> "error", data |-> Nil, err |-> errKeySize]
    ELSE IF Len(iv) # BlockSize \/ Len(cipher.data) % BlockSize # 0
    THEN [kind |-> "panic", data |-> Nil, err |-> "input not full blocks"]
    ELSE PKCS7Unpad(CBCDecrypt(key, iv, cipher))

\* hmac.New(sha256.New, key); h.Write(data); h.Sum(nil)
GenerateHMAC(key, data) == [alg |-> "hmac-sha256", key |-> key, data |-> data]

\* subtle.ConstantTimeCompare(mac, expected) == 1
VerifyHMAC(key, data, mac) == mac = GenerateHMAC(key, data)

\* Key pairs: a public key (the PKIX bytes) names its private key, so a signature
\* term names the public key that verifies it.
ecdsaPub == "ecdsa-pub-sender"
rsaPub == "rsa-pub-sender"
attackerEcdsaPub == "ecdsa-pub-attacker"
attackerRsaPub == "rsa-pub-attacker"
ECDSAPublicKeys == {ecdsaPub, attackerEcdsaPub}
RSAPublicKeys == {rsaPub, attackerRsaPub}

\* ecdsa.Sign over sha512(data): the pair (r, s), a term naming the key.
ecdsaSign(pub, data) == [alg |-> "ecdsa", key |-> pub, data |-> data]

\* json.Marshal of struct{ R, S *big.Int }: the member names as written and
\* the two numbers.
jsonMarshal(rs) == [names |-> <<"R", "S">>, rs |-> rs]

\* json.Unmarshal into struct{ R, S *big.Int } matches a member name to a
\* field exactly or case-insensitively; a member of another name is skipped
\* and its field stays nil.
ToUpper(name) == IF name = "r" THEN "R" ELSE IF name = "s" THEN "S" ELSE name
jsonUnmarshal(text) ==
    [rs |-> text.rs,
     nilField |-> \E i \in 1 .. 2 : ToUpper(text.names[i]) # <<"R", "S">>[i]]

\* ecdsa.Sign over sha512(data), JSON of (R, S).
SignECDSA(pub, data) == jsonMarshal(ecdsaSign(pub, data))

\* ecdsa.Verify dereferences R and S: a nil one is a nil pointer panic.
VerifyECDSAPanics(pubBytes, sig) ==
    /\ pubBytes \in ECDSAPublicKeys
    /\ jsonUnmarshal(sig).nilField

\* x509.ParsePKIXPublicKey, the type assertion, json.Unmarshal, ecdsa.Verify.
VerifyECDSA(pubBytes, data, sig) ==
    /\ pubBytes \in ECDSAPublicKeys
    /\ ~jsonUnmarshal(sig).nilField
    /\ jsonUnmarshal(sig).rs = ecdsaSign(pubBytes, data)

\* rsa.SignPKCS1v15 over sha256(data).
SignRSA(pub, data) == [alg |-> "rsa", key |-> pub, data |-> data]

VerifyRSA(pubBytes, data, sig) ==
    /\ pubBytes \in RSAPublicKeys
    /\ sig = SignRSA(pubBytes, data)

\* ------------------------------------------------------------ key agreement
Abs(x) == IF x < 0 THEN 0 - x ELSE x

\* The big-endian bytes of a natural number, none for zero.
RECURSIVE BigEndian(_)
BigEndian(n) == IF n = 0 THEN << >> ELSE Append(BigEndian(n \div 256), n % 256)

\* big.Int.Bytes(): the big-endian bytes of the absolute value.
Bytes(x) == BigEndian(Abs(x))

\* big.Int.SetBytes.
RECURSIVE SetBytes(_)
SetBytes(b) ==
    IF b = << >> THEN 0
    ELSE 256 * SetBytes(SubSeq(b, 1, Len(b) - 1)) + b[Len(b)]

\* sha256.Sum256: Sha256Size bytes; a stand-in without collisions on inputs
\* shorter than Sha256Size (the length, the input, zeros).
Sha256(b) ==
    [i \in 1 .. Sha256Size |->
        IF i = 1 THEN Len(b) ELSE IF i - 1 <= Len(b) THEN b[i - 1] ELSE 0]

RECURSIVE expNN(_, _, _)
expNN(x, y, m) == IF y = 0 THEN 1 % m ELSE (x * expNN(x, y - 1, m)) % m

\* big.Int.Exp(x, y, m) for y > 0 and m > 0: the power of the absolute value,
\* and for a negative x and an odd y, m minus it.
Exp(x, y, m) ==
    LET abs == expNN(Abs(x) % m, y, m)
    IN  IF abs # 0 /\ x < 0 /\ y % 2 = 1 THEN m - abs ELSE abs

\* GenerateDHKeyPair: public = g^private mod p.
DHPublic(private) == Exp(DHGenerator, private, DHPrime)

\* rand.Int(rand.Reader, max): a value of [0, max); the draws followed are the
\* least MaxPrivate of them and the greatest.
RandInt(max) == {r \in 0 .. max - 1 : r < MaxPrivate \/ r = max - 1}

\* GenerateDHKeyPair on the draw r = rand.Int(p - 1): private = r + 1.
GenerateDHKeyPair(r) == [Private |-> r + 1, Public |-> DHPublic(r + 1)]

\* ComputeDHSharedSecret: sha256 of the bytes of peerPublic^private mod p.
ComputeDHSharedSecret(privateKey, peerPublicKey) ==
    Sha256(Bytes(Exp(peerPublicKey, privateKey, DHPrime)))

\* The curve's arithmetic: a point is <<x, y>>, the point at infinity << >>.
Infinity == << >>
ModInverse(a, m) == CHOOSE x \in 1 .. m - 1 : (a * x) % m = 1
CurveAdd(P, Q) ==
    IF P = Infinity THEN Q
    ELSE IF Q = Infinity THEN P
    ELSE IF P[1] = Q[1] /\ (P[2] + Q[2]) % CurveP = 0 THEN Infinity
    ELSE LET lambda ==
                 IF P = Q
                 THEN ((3 * P[1] * P[1] + CurveA) * ModInverse((2 * P[2]) % CurveP, CurveP)) % CurveP
                 ELSE (((Q[2] - P[2]) % CurveP) * ModInverse((Q[1] - P[1]) % CurveP, CurveP)) % CurveP
             x3 == (lambda * lambda - P[1] - Q[1]) % CurveP
         IN  <<x3, (lambda * (P[1] - x3) - P[2]) % CurveP>>

RECURSIVE Multiply(_, _)
Multiply(P, k) == IF k = 0 THEN Infinity ELSE CurveAdd(P, Multiply(P, k - 1))

\* Curve.ScalarMult(x, y, k) with k in big-endian bytes.
ScalarMult(P, k) == Multiply(P, SetBytes(k))

\* ecdsa.GenerateKey: the public point D * G; x509.MarshalPKIXPublicKey of it.
ECDHPublic(D) == [type |-> "ecdsa", point |-> Multiply(<<CurveGx, CurveGy>>, D)]

\* The shared secret computed from one's own public key.
ComputeSharedSecret_OwnPublic(D, peerPubBytes) ==
    Sha256(Bytes(ScalarMult(ECDHPublic(D).point, Bytes(D))[1]))

\* ComputeSharedSecret: sha256 of the bytes of the x coordinate of D * peer.
ComputeSharedSecret(D, peerPubBytes) ==
    Sha256(Bytes(ScalarMult(peerPubBytes.point, Bytes(D))[1]))

\* ---------------------------------------------------------------- envelope
\* type Message struct
Message(ts, nonce, iv, cipher, mac, sig, pub, rsasig) ==
    [Timestamp |-> ts, Nonce |-> nonce, IV |-> iv, Cipher |-> cipher,
     HMAC |-> mac, Signature |-> sig, PubKey |-> pub, RSASig |-> rsasig]

\* The zero Message, where a call has returned none.
NoMessage == Message(0, 0, Nil, NoTerm, GenerateHMAC(Nil, NoTerm),
                     SignECDSA("", NoTerm), "", SignRSA("", NoTerm))

\* rand.Read(iv) of 16 bytes, rand.Read(nonce): the draws of the model.
RandomIVs == {Repeat(1, BlockSize)}
Plaintexts == {<<7>>}

\* ------------------------------------------------------------------- errors
\* The error texts (the source's are Russian).
errTimestamp == "timestamp out of range"
errReplay == "nonce already used (replay attack detected)"
errHMAC == "HMAC check failed"
errECDSA == "ECDSA signature invalid"
errRSA == "RSA signature invalid"
errConcurrency == "concurrent operations limit exceeded"
errRateLimit == "operations too frequent"
\* x509.ParsePKIXPublicKey's error
errParseKey == "failed to parse public key"
errNotRSA == "not an RSA public key"
\* fmt.Errorf("проверка RSA подписи не удалась: %v", err)
errDHSignature == "RSA signature check failed"
\* runtime error: invalid memory address or nil pointer dereference
errPanic == "nil pointer dereference"
\* fmt.Errorf("ошибка расшифровки: %v", err)
errDecrypt(inner) == <<"decrypt error", inner>>
NoError == <<"", "">>
Err(text) == <<text, "">>

\* -------------------------------------------------------------------- state
VARIABLES
    now,            \* the wall clock, in ticks
    nonces,         \* globalNonceTracker.nonces: nonce -> time.Time recorded
    concurrentOps,  \* the in-flight counter of part_010
    wire,           \* the envelopes CreateSecureMessage has returned
    accepted,       \* the envelopes VerifyAndDecryptMessage has returned nil error for
    pc,             \* where each caller stands
    current,        \* ConcurrencyCheck's local `current`
    plaintext,      \* CreateSecureMessage's argument
    iv,             \* CreateSecureMessage's local `iv`
    ciphertext,     \* CreateSecureMessage's local `ciphertext`
    msg,            \* VerifyAndDecryptMessage's argument
    ret,            \* what the caller's last call returned (the Message of a
                    \* CreateSecureMessage goes to wire)
    checks,         \* the checks the caller's verification has evaluated, in order
    unseen,         \* the nonce of msg was absent from the tracker when the call began
    again,          \* msg had been accepted when the call began
    retry,          \* the call repeats the caller's previous one, denied admission at decrypt
    maxConcurrentOps,  \* part_010:19, a package variable the program never writes
    rateLimitMap,   \* part_010:21: clientID -> time.Time of the last admitted operation
    rateRet,        \* what the last RateLimitCheck returned, and to whom
    lastAccepted,   \* clientID -> the time RateLimitCheck last admitted it
    lastRejected,   \* clientID -> when RateLimitCheck last rejected it, and the
                    \* admission that rejection was measured from
    ECDSAPrivate,   \* ConnectionInfo.ECDSAPrivate of each party (0: none yet)
    SharedSecret,   \* ConnectionInfo.SharedSecret of each party
    dhPrivate,      \* DHKeyPair.Private of each party (0: none yet)
    peerExchange,   \* the DHKeyExchange delivered to the verifying party
    dhSecret,       \* the DH shared secret each party has computed
    dhErr,          \* the error VerifyAndComputeSharedSecret returned
    hmacTimingStats,  \* part_011:12: the measurements VerifyHMAC has added
    hmacRet,        \* the arguments and the result of the last VerifyHMAC on bytes
    nt,             \* a NonceTracker a caller has made: its fields, the state of
                    \* its mutex, of its stopChan and of its ticker's channel
    thr,            \* the goroutines that use nt: where each stands in its call
    rateLimitMutex, \* part_010:20: the goroutines that hold it
    padCall         \* the last call of PKCS7Pad or PKCS7Unpad by itself: its
                    \* argument and what it returned

vars == <<now, nonces, concurrentOps, wire, accepted, pc, current, plaintext, iv,
          ciphertext, msg, ret, checks, unseen, again, retry,
          maxConcurrentOps, rateLimitMap, rateRet, lastAccepted, lastRejected,
          ECDSAPrivate, SharedSecret, dhPrivate, peerExchange, dhSecret, dhErr,
          hmacTimingStats, hmacRet, nt, thr, rateLimitMutex, padCall>>

\* The state of the rate limiter and of the key agreement.
rateVars == <<rateLimitMap, rateRet, lastAccepted, lastRejected>>
agreementVars == <<ECDSAPrivate, SharedSecret, dhPrivate, peerExchange, dhSecret, dhErr>>
\* What the message codec and the nonce tracker never write.
timingVars == <<hmacTimingStats, hmacRet>>
trackerVars == <<nt, thr, rateLimitMutex>>
paddingVars == <<padCall>>
outsideCodec == <<maxConcurrentOps, rateVars, agreementVars, timingVars, trackerVars,
                  paddingVars>>
\* What the rate limiter and the key agreement never write.
codecVarsButTracker == <<nonces, concurrentOps, wire, accepted, pc, current, plaintext,
                         iv, ciphertext, msg, ret, checks, unseen, again, retry,
                         maxConcurrentOps, timingVars, paddingVars>>
codecVarsButPadding == <<nonces, concurrentOps, wire, accepted, pc, current, plaintext,
                         iv, ciphertext, msg, ret, checks, unseen, again, retry,
                         maxConcurrentOps, timingVars, trackerVars>>
codecVars == <<codecVarsButTracker, trackerVars>>

\* The two ends of a connection.
Parties == {"client", "server"}
Peer(x) == IF x = "client" THEN "server" ELSE "client"

\* No DHKeyExchange received.
NoDHSignature == [alg |-> "none", key |-> "", data |-> Nil]
NoExchange == [Public |-> 0, DHSignature |-> NoDHSignature, RSAPublicKey |-> ""]
\* VerifyHMAC on bytes not called yet.
NoHMACReturn == [key |-> Nil, data |-> Nil, mac |-> Nil, result |-> FALSE]
\* The goroutines that call the tracker, and the one NewNonceTracker starts.
Threads == 1 .. NumThreads
Sweeper == 0
\* No tracker made yet.
NoTracker == [made |-> FALSE, nonces |-> << >>, maxSize |-> 0, w |-> {},
              readers |-> {}, stopped |-> FALSE, tick |-> FALSE]
\* A goroutine outside every call.
NoCall == [pc |-> "idle", op |-> "none", nonce |-> 0, err |-> NoError,
           count |-> 0, calls |-> 0]
\* (count: the len(nt.nonces) the method has read.)
\* Neither PKCS7Pad nor PKCS7Unpad called yet.
NoPadCall == [op |-> "none", data |-> Nil, out |-> [kind |-> "ok", data |-> Nil, err |-> ""],
              padded |-> FALSE, orig |-> Nil]
\* RateLimitCheck not called yet.
NoRateReturn == [client |-> 0, err |-> NoError]

\* The locals of the two calls.
createLocals == <<plaintext, iv, ciphertext>>
verifyLocals == <<msg, checks, unseen, again, retry>>

shared == <<now, nonces, concurrentOps, wire, accepted>>

NoReturn == [op |-> "none", plain |-> Nil, err |-> NoError]

\* The state after package initialisation, with the cap on in-flight operations
\* scaled to cap (the source's is 100).
InitWith(cap) ==
    /\ maxConcurrentOps = cap
    /\ rateLimitMap = << >>
    /\ rateRet = NoRateReturn
    /\ lastAccepted = << >>
    /\ lastRejected = << >>
    /\ ECDSAPrivate = [x \in Parties |-> 0]
    /\ SharedSecret = [x \in Parties |-> Nil]
    /\ dhPrivate = [x \in Parties |-> 0]
    /\ peerExchange = [x \in Parties |-> NoExchange]
    /\ dhSecret = [x \in Parties |-> Nil]
    /\ dhErr = [x \in Parties |-> NoError]
    /\ hmacTimingStats = << >>
    /\ hmacRet = NoHMACReturn
    /\ nt = NoTracker
    /\ thr = [t \in Threads \cup {Sweeper} |-> NoCall]
    /\ rateLimitMutex = {}
    /\ padCall = NoPadCall
    /\ now = 0
    /\ nonces = << >>
    /\ concurrentOps = 0
    /\ wire = {}
    /\ accepted = {}
    /\ pc = [p \in Callers |-> "idle"]
    /\ current = [p \in Callers |-> 0]
    /\ plaintext = [p \in Callers |-> Nil]
    /\ iv = [p \in Callers |-> Nil]
    /\ ciphertext = [p \in Callers |-> NoTerm]
    /\ msg = [p \in Callers |-> NoMessage]
    /\ ret = [p \in Callers |-> NoReturn]
    /\ checks = [p \in Callers |-> << >>]
    /\ unseen = [p \in Callers |-> FALSE]
    /\ again = [p \in Callers |-> FALSE]
    /\ retry = [p \in Callers |-> FALSE]

Init == InitWith(1)

\* ------------------------------------------------------------ nonce tracker
\* The cutoff taken after the present time instead of before it.
cleanupOldNonces_CutoffAhead(ns, t) ==
    LET cutoff == t + NonceCleanupInterval
        kept == {n \in DOMAIN ns : ~(ns[n] < cutoff)}
    IN  [n \in kept |-> ns[n]]

\* NonceTracker.cleanupOldNonces at time t: the entries not before the cutoff.
cleanupOldNonces(ns, t) ==
    LET cutoff == t - NonceCleanupInterval
        kept == {n \in DOMAIN ns : ~(ns[n] < cutoff)}
    IN  [n \in kept |-> ns[n]]

\* The insertion refused while the map holds MaxNonceStorage entries or more.
RecordNonce_UnlessFull(ns, nonce, t) ==
    IF Cardinality(DOMAIN ns) >= MaxNonceStorage
    THEN ns
    ELSE [n \in DOMAIN ns \cup {nonce} |-> IF n = nonce THEN t ELSE ns[n]]

\* nt.nonces[nonceStr] = time.Now()
RecordNonce(ns, nonce, t) ==
    [n \in DOMAIN ns \cup {nonce} |-> IF n = nonce THEN t ELSE ns[n]]

\* NonceTracker.GetCount: len(nt.nonces).
GetCount(ns) == Cardinality(DOMAIN ns)

\* A Reset that leaves the map as it is.
Reset_Nothing(ns) == ns

\* NonceTracker.Reset: nt.nonces = make(map[string]time.Time).
Reset(ns) == << >>

\* A size test that sends every call to the sweep.
AtCapacity_Always(ns, maxSize) == TRUE

\* len(nt.nonces) >= nt.maxSize
AtCapacity(ns, maxSize) == Cardinality(DOMAIN ns) >= maxSize

\* NonceTracker.AddNonce of a tracker made with maxSize, at time t: the error
\* it returns and the map it leaves.
NonceTracker_AddNonce(maxSize, ns, nonce, t) ==
    IF nonce \in DOMAIN ns
    THEN [err |-> Err(errReplay), nonces |-> ns]
    ELSE LET swept == IF AtCapacity(ns, maxSize)
                      THEN cleanupOldNonces(ns, t)
                      ELSE ns
         IN  [err |-> NoError, nonces |-> RecordNonce(swept, nonce, t)]

\* AddNonce without the duplicate test.
AddNonce_NoDuplicateTest(ns, nonce, t) ==
    [err |-> NoError,
     nonces |-> [n \in DOMAIN ns \cup {nonce} |-> IF n = nonce THEN t ELSE ns[n]]]

\* globalNonceTracker.AddNonce at time t, one critical section of nt.mutex.
AddNonce(ns, nonce, t) == NonceTracker_AddNonce(MaxNonceStorage, ns, nonce, t)

\* ---------------------------------------------------------- admission control
\* The test that denies the last free slot.
LimitReached_OneEarly(cur) == cur >= maxConcurrentOps - 1

\* ConcurrencyCheck's test of the value it loaded.
LimitReached(cur) == cur >= maxConcurrentOps

\* The deferred release left out.
ConcurrencyRelease_Missing(ops) == ops

\* ConcurrencyRelease: atomic.AddInt64(&concurrentOps, -1).
ConcurrencyRelease(ops) == ops - 1

\* The callers between a successful ConcurrencyCheck and the deferred
\* ConcurrencyRelease.
InFlight == {p \in Callers : pc[p] \in {"enc_body", "dec_body"}}

\* ------------------------------------------------------------------ freshness
\* The check of part_009, which rejects every timestamp ahead of the clock.
TimestampOutOfRange_NoSkew(nowUnix, ts) ==
    nowUnix - ts > MaxTimeDifference \/ nowUnix < ts

\* securemessage.go:161, on Unix seconds.
TimestampOutOfRange(nowUnix, ts) ==
    nowUnix - ts > MaxTimeDifference \/ nowUnix < ts - MaxTimeDifference

\* ------------------------------------------------------ CreateSecureMessage
Creating == {p \in Callers : pc[p] \in {"enc_test", "enc_body", "create_rest"}}

\* The envelopes asked for so far: returned or under construction.
Requested == Cardinality(wire) + Cardinality(Creating)

\* CreateSecureMessage up to AESEncrypt's ConcurrencyCheck: rand.Read(iv), then
\* atomic.LoadInt64(&concurrentOps).
CreateSecureMessage_Begin(p, pt, randIV) ==
    /\ UNCHANGED outsideCodec
    /\ pc[p] = "idle"
    /\ pc' = [pc EXCEPT ![p] = "enc_test"]
    /\ plaintext' = [plaintext EXCEPT ![p] = pt]
    /\ iv' = [iv EXCEPT ![p] = randIV]
    /\ current' = [current EXCEPT ![p] = concurrentOps]
    /\ ciphertext' = [ciphertext EXCEPT ![p] = NoTerm]
    /\ ret' = [ret EXCEPT ![p] = NoReturn]
    /\ UNCHANGED <<shared, verifyLocals>>

\* The rest of ConcurrencyCheck in AESEncrypt: over the limit AESEncrypt returns
\* nil (after a sleep), else atomic.AddInt64(&concurrentOps, 1).
AESEncrypt_Check(p) ==
    /\ UNCHANGED outsideCodec
    /\ pc[p] = "enc_test"
    /\ IF LimitReached(current[p])
       THEN /\ pc' = [pc EXCEPT ![p] = "create_rest"]
            /\ UNCHANGED concurrentOps
       ELSE /\ pc' = [pc EXCEPT ![p] = "enc_body"]
            /\ concurrentOps' = concurrentOps + 1
    /\ UNCHANGED <<now, nonces, wire, accepted, current, createLocals, ret,
                   verifyLocals>>

\* AESEncrypt's body and its deferred ConcurrencyRelease. aes.NewCipher fails
\* on a key that is not 16, 24 or 32 bytes, and AESEncrypt panics.
AESEncrypt_Body(p) ==
    /\ UNCHANGED outsideCodec
    /\ pc[p] = "enc_body"
    /\ concurrentOps' = ConcurrencyRelease(concurrentOps)
    /\ IF Len(EncKey(sharedSecret)) \notin {16, 24, 32}
       THEN /\ pc' = [pc EXCEPT ![p] = "panicked"]
            /\ UNCHANGED ciphertext
       ELSE /\ pc' = [pc EXCEPT ![p] = "create_rest"]
            /\ ciphertext' = [ciphertext EXCEPT ![p] =
                   CBCEncrypt(EncKey(sharedSecret), iv[p], PKCS7Pad(plaintext[p]))]
    /\ UNCHANGED <<now, nonces, wire, accepted, current, plaintext, iv, ret,
                   verifyLocals>>

\* rand.Read(nonce): a value never drawn before.
FreshNonce == Cardinality(wire) + 1

\* A send path that records the nonce it has drawn.
TrackerAfterCreate_Recorded(ns, nonce, t) == RecordNonce(ns, nonce, t)

\* The tracker after CreateSecureMessage: no statement of it names
\* globalNonceTracker.
TrackerAfterCreate(ns, nonce, t) == ns

\* CreateSecureMessage after AESEncrypt: MAC, both signatures, nonce, timestamp,
\* and the Message returned.
CreateSecureMessage_Rest(p) ==
    /\ UNCHANGED outsideCodec
    /\ pc[p] = "create_rest"
    /\ LET c == ciphertext[p]
           m == Message(Unix(now), FreshNonce, iv[p], c,
                        GenerateHMAC(MacKey(sharedSecret), c),
                        SignECDSA(ecdsaPub, c), ecdsaPub, SignRSA(rsaPub, c))
       IN  /\ wire' = wire \cup {m}
           /\ ret' = [ret EXCEPT ![p] =
                  [op |-> "create", plain |-> Nil, err |-> NoError]]
    /\ pc' = [pc EXCEPT ![p] = "idle"]
    /\ current' = [current EXCEPT ![p] = 0]
    /\ plaintext' = [plaintext EXCEPT ![p] = Nil]
    /\ iv' = [iv EXCEPT ![p] = Nil]
    /\ ciphertext' = [ciphertext EXCEPT ![p] = NoTerm]
    /\ nonces' = TrackerAfterCreate(nonces, FreshNonce, now)
    /\ UNCHANGED <<now, concurrentOps, accepted, verifyLocals>>

\* -------------------------------------------------- what a caller may present
\* An envelope off the wire, as sent or with one field rewritten in transit.
\* The keys are the sender's: nobody else can make the MAC or the signatures.
ForgedHMAC(m) == [m EXCEPT !.HMAC = GenerateHMAC(Nil, m.Cipher)]
ForgedECDSA(m) == [m EXCEPT !.Signature = SignECDSA(attackerEcdsaPub, m.Cipher)]
ForgedRSA(m) == [m EXCEPT !.RSASig = SignRSA(attackerRsaPub, m.Cipher)]
ShortIV(m) == [m EXCEPT !.IV = <<1>>]
Restamped(m, ts) == [m EXCEPT !.Timestamp = ts]
Renonced(m, n) == [m EXCEPT !.Nonce = n]
\* The ECDSA signature made anew with the forger's own key, whose public key
\* replaces the sender's in PubKey.
ResignedECDSA(m) ==
    [m EXCEPT !.Signature = SignECDSA(attackerEcdsaPub, m.Cipher),
              !.PubKey = attackerEcdsaPub]
\* One bit flipped: tamperedMsg.Cipher[0] ^= 1, where there is a first byte.
FlipBit(b) == IF b % 2 = 0 THEN b + 1 ELSE b - 1
TamperedCipher(m) ==
    IF Len(m.Cipher.data) = 0
    THEN m
    ELSE [m EXCEPT !.Cipher.data[1] = FlipBit(@)]
\* Another IV of one block: the last byte's low bit flipped, or every byte
\* another.
OtherIVs(sent) ==
    IF Len(sent) = 0
    THEN {}
    ELSE {[sent EXCEPT ![Len(sent)] = FlipBit(@)],
          [i \in 1 .. Len(sent) |-> FlipBit(sent[i]) + 2]}
ReplacedIV(m, other) == [m EXCEPT !.IV = other]
\* One bit flipped in the JSON text of the signature: the member name R
\* (0x52) becomes r (0x72), or P (0x50).
LowerCaseMember(m) == [m EXCEPT !.Signature.names = <<"r", "S">>]
RenamedMember(m) == [m EXCEPT !.Signature.names = <<"P", "S">>]

\* The timestamps a test writes into an envelope: around both edges of the window.
EdgeOffsets == {MaxTimeDifference - 1, MaxTimeDifference, MaxTimeDifference + 1}
EdgeTimestamps(nowUnix) ==
    {nowUnix - d : d \in EdgeOffsets} \cup {nowUnix + d : d \in EdgeOffsets}

ForgedNonces == (MaxMessages + 1) .. (MaxMessages + NumForgedNonces)

Presentable ==
    wire
    \cup {ForgedHMAC(m) : m \in wire}
    \cup {ForgedECDSA(m) : m \in wire}
    \cup {ForgedRSA(m) : m \in wire}
    \cup {ShortIV(m) : m \in wire}
    \cup {ResignedECDSA(m) : m \in wire}
    \cup {TamperedCipher(m) : m \in wire}
    \cup {LowerCaseMember(m) : m \in wire}
    \cup {RenamedMember(m) : m \in wire}
    \cup {Restamped(m, ts) : m \in wire, ts \in EdgeTimestamps(Unix(now))}
    \cup {Renonced(m, n) : m \in wire, n \in ForgedNonces}
    \cup UNION {{ReplacedIV(m, v) : v \in OtherIVs(m.IV)} : m \in wire}

\* -------------------------------------------------- VerifyAndDecryptMessage
Return(p, plain, err) ==
    /\ pc' = [pc EXCEPT ![p] = "idle"]
    /\ ret' = [ret EXCEPT ![p] =
           [op |-> "verify", plain |-> plain, err |-> err]]
    /\ accepted' = IF err = NoError THEN accepted \cup {msg[p]} ELSE accepted
    /\ current' = [current EXCEPT ![p] = 0]

\* The nonce recorded before the timestamp is looked at.
TrackerAfterTimestampCheck_Recorded(ns, nonce, t) == AddNonce(ns, nonce, t).nonces

\* The tracker after step 1: the timestamp check returns, or goes on to step 2,
\* without a call on globalNonceTracker.
TrackerAfterTimestampCheck(ns, nonce, t) == ns

\* Step 1, the timestamp check against time.Now().Unix().
VerifyAndDecryptMessage_Begin(p, m) ==
    /\ UNCHANGED outsideCodec
    /\ pc[p] = "idle"
    /\ msg' = [msg EXCEPT ![p] = m]
    /\ checks' = [checks EXCEPT ![p] = <<"timestamp">>]
    /\ unseen' = [unseen EXCEPT ![p] = m.Nonce \notin DOMAIN nonces]
    /\ again' = [again EXCEPT ![p] = m \in accepted]
    /\ retry' = [retry EXCEPT ![p] =
           /\ ret[p].op = "verify"
           /\ ret[p].err = errDecrypt(errConcurrency)
           /\ msg[p] = m]
    /\ IF TimestampOutOfRange(Unix(now), m.Timestamp)
       THEN /\ pc' = [pc EXCEPT ![p] = "idle"]
            /\ ret' = [ret EXCEPT ![p] =
                   [op |-> "verify", plain |-> Nil, err |-> Err(errTimestamp)]]
       ELSE /\ pc' = [pc EXCEPT ![p] = "ver_nonce"]
            /\ ret' = [ret EXCEPT ![p] = NoReturn]
    /\ nonces' = TrackerAfterTimestampCheck(nonces, m.Nonce, now)
    /\ UNCHANGED <<now, concurrentOps, wire, accepted, current, createLocals>>

\* The checks made over the ciphertext together with the envelope's IV.
Covered_WithIV(m) == [m.Cipher EXCEPT !.iv = m.IV]

\* What the MAC and the two signatures are checked over: msg.Cipher.
Covered(m) == m.Cipher

\* The RSA check left out.
VerifyChecks_NoRSA(m, nonceErr) ==
    IF nonceErr # NoError
    THEN [err |-> nonceErr, checks |-> <<"nonce">>]
    ELSE IF ~VerifyHMAC(MacKey(sharedSecret), m.Cipher, m.HMAC)
    THEN [err |-> Err(errHMAC), checks |-> <<"nonce", "hmac">>]
    ELSE IF VerifyECDSAPanics(m.PubKey, m.Signature)
    THEN [err |-> Err(errPanic), checks |-> <<"nonce", "hmac", "ecdsa">>]
    ELSE IF ~VerifyECDSA(m.PubKey, m.Cipher, m.Signature)
    THEN [err |-> Err(errECDSA), checks |-> <<"nonce", "hmac", "ecdsa">>]
    ELSE [err |-> NoError, checks |-> <<"nonce", "hmac", "ecdsa", "rsa">>]

\* Steps 2 to 5 of VerifyAndDecryptMessage, given what AddNonce returned: the
\* error of the first check that fails and the checks evaluated on the way.
\* No error sends the envelope on to AESDecrypt; errPanic is no return but a
\* panic inside the check.
VerifyChecks(m, nonceErr) ==
    IF nonceErr # NoError
    THEN [err |-> nonceErr, checks |-> <<"nonce">>]
    ELSE IF ~VerifyHMAC(MacKey(sharedSecret), Covered(m), m.HMAC)
    THEN [err |-> Err(errHMAC), checks |-> <<"nonce", "hmac">>]
    ELSE IF VerifyECDSAPanics(m.PubKey, m.Signature)
    THEN [err |-> Err(errPanic), checks |-> <<"nonce", "hmac", "ecdsa">>]
    ELSE IF ~VerifyECDSA(m.PubKey, Covered(m), m.Signature)
    THEN [err |-> Err(errECDSA), checks |-> <<"nonce", "hmac", "ecdsa">>]
    ELSE IF ~VerifyRSA(rsaPub, Covered(m), m.RSASig)
    THEN [err |-> Err(errRSA), checks |-> <<"nonce", "hmac", "ecdsa", "rsa">>]
    ELSE [err |-> NoError, checks |-> <<"nonce", "hmac", "ecdsa", "rsa">>]

\* Steps 2 to 5 as one step of the caller: AddNonce is the only one of them that
\* touches shared state.
VerifyAndDecryptMessage_Checks(p) ==
    /\ UNCHANGED outsideCodec
    /\ pc[p] = "ver_nonce"
    /\ LET added == AddNonce(nonces, msg[p].Nonce, now)
           done == VerifyChecks(msg[p], added.err)
       IN  /\ nonces' = added.nonces
           /\ checks' = [checks EXCEPT ![p] = @ \o done.checks]
           /\ IF done.err = Err(errPanic)
              THEN /\ pc' = [pc EXCEPT ![p] = "panicked"]
                   /\ UNCHANGED <<ret, accepted, current>>
              ELSE IF done.err # NoError
              THEN Return(p, Nil, done.err)
              ELSE /\ pc' = [pc EXCEPT ![p] = "dec_load"]
                   /\ UNCHANGED <<ret, accepted, current>>
    /\ UNCHANGED <<now, concurrentOps, wire, createLocals, msg,
                   unseen, again, retry>>

\* AESDecrypt: atomic.LoadInt64(&concurrentOps) in ConcurrencyCheck.
AESDecrypt_Load(p) ==
    /\ UNCHANGED outsideCodec
    /\ pc[p] = "dec_load"
    /\ current' = [current EXCEPT ![p] = concurrentOps]
    /\ checks' = [checks EXCEPT ![p] = @ \o <<"decrypt">>]
    /\ pc' = [pc EXCEPT ![p] = "dec_test"]
    /\ UNCHANGED <<shared, createLocals, msg, ret, unseen, again, retry>>

\* The rest of ConcurrencyCheck in AESDecrypt: over the limit AESDecrypt returns
\* the error, which VerifyAndDecryptMessage wraps and returns.
AESDecrypt_Check(p) ==
    /\ UNCHANGED outsideCodec
    /\ pc[p] = "dec_test"
    /\ IF LimitReached(current[p])
       THEN /\ Return(p, Nil, errDecrypt(errConcurrency))
            /\ UNCHANGED concurrentOps
       ELSE /\ pc' = [pc EXCEPT ![p] = "dec_body"]
            /\ concurrentOps' = concurrentOps + 1
            /\ UNCHANGED <<ret, accepted, current>>
    /\ UNCHANGED <<now, nonces, wire, createLocals, verifyLocals>>

\* AESDecrypt's body and its deferred ConcurrencyRelease, which runs on every
\* way out: cipher.NewCBCDecrypter panics on an IV that is not one block long,
\* CryptBlocks on input that is not full blocks, PKCS7Unpad returns an error.
AESDecrypt_Body(p) ==
    /\ UNCHANGED outsideCodec
    /\ pc[p] = "dec_body"
    /\ concurrentOps' = ConcurrencyRelease(concurrentOps)
    /\ LET unpadded == AESDecryptBody(EncKey(sharedSecret), msg[p].IV, msg[p].Cipher)
       IN  IF unpadded.kind = "panic"
           THEN /\ pc' = [pc EXCEPT ![p] = "panicked"]
                /\ UNCHANGED <<ret, accepted, current>>
           ELSE IF unpadded.kind = "error"
           THEN Return(p, Nil, errDecrypt(unpadded.err))
           ELSE Return(p, unpadded.data, NoError)
    /\ UNCHANGED <<now, nonces, wire, createLocals, verifyLocals>>

\* AESDecrypt(key, iv, ciphertext) called by itself, by a caller with no other
\* call in flight: ConcurrencyCheck, the body and the deferred
\* ConcurrencyRelease, which leaves the counter as it found it.
AESDecrypt(p, key, ivGiven, cipher) ==
    /\ UNCHANGED outsideCodec
    /\ pc[p] = "idle"
    /\ \A q \in Callers : pc[q] \in {"idle", "panicked"}
    /\ LET out == IF LimitReached(concurrentOps)
                  THEN [kind |-> "error", data |-> Nil, err |-> errConcurrency]
                  ELSE AESDecryptBody(key, ivGiven, cipher)
       IN  IF out.kind = "panic"
           THEN /\ pc' = [pc EXCEPT ![p] = "panicked"]
                /\ UNCHANGED ret
           ELSE /\ ret' = [ret EXCEPT ![p] =
                       [op |-> "decrypt", plain |-> out.data,
                        err |-> IF out.kind = "error" THEN Err(out.err) ELSE NoError]]
                /\ UNCHANGED pc
    /\ UNCHANGED <<now, nonces, concurrentOps, wire, accepted, current,
                   createLocals, verifyLocals>>

\* ------------------------------------------------------------ time and sweeps
Tick ==
    /\ UNCHANGED outsideCodec
    /\ now < MaxNow
    /\ now' = now + 1
    /\ UNCHANGED <<nonces, concurrentOps, wire, accepted, pc, current,
                   createLocals, ret, verifyLocals>>

\* NonceTracker.startCleanup: the ticker fires every cleanupInterval / 2 and the
\* goroutine sweeps under nt.mutex.
SweepPeriod == NonceCleanupInterval \div 2

\* A timer in place of the ticker: it fires once.
TickerFires_Once(t) == t = SweepPeriod

\* time.NewTicker(nt.cleanupInterval / 2): ticker.C delivers at every multiple
\* of the period.
TickerFires(t) == t > 0 /\ t % SweepPeriod = 0

startCleanup ==
    /\ UNCHANGED outsideCodec
    /\ TickerFires(now)
    /\ nonces' = cleanupOldNonces(nonces, now)
    /\ UNCHANGED <<now, concurrentOps, wire, accepted, pc, current,
                   createLocals, ret, verifyLocals>>

\* ClearOldNonces, the exported sweep, at any time.
ClearOldNonces ==
    /\ UNCHANGED outsideCodec
    /\ nonces' = cleanupOldNonces(nonces, now)
    /\ UNCHANGED <<now, concurrentOps, wire, accepted, pc, current,
                   createLocals, ret, verifyLocals>>

\* One caller against the clock, the sweeps and every rewriting of an envelope.
Next ==
    \/ /\ Requested < MaxMessages
       /\ \E pt \in Plaintexts, r \in RandomIVs : CreateSecureMessage_Begin(1, pt, r)
    \/ AESEncrypt_Check(1)
    \/ AESEncrypt_Body(1)
    \/ CreateSecureMessage_Rest(1)
    \/ \E m \in Presentable : VerifyAndDecryptMessage_Begin(1, m)
    \/ VerifyAndDecryptMessage_Checks(1)
    \/ AESDecrypt_Load(1)
    \/ AESDecrypt_Check(1)
    \/ AESDecrypt_Body(1)
    \/ Tick
    \/ startCleanup
    \/ ClearOldNonces

Spec == Init /\ [][Next]_vars

\* The arguments of the calls of AESDecrypt by itself: the key, a key of the
\* same size that did not encrypt, a key of no AES size; ciphertexts of no
\* byte, of a padded block, of a block ending in a pad byte of 0, of more than
\* the block size, and in pad bytes that disagree.
DecryptKeys == {EncKey(sharedSecret), Repeat(9, AESKeySize), <<1>>}
DecryptBlocks ==
    {Nil, PKCS7Pad(<<7>>), Repeat(0, BlockSize), Repeat(BlockSize + 1, BlockSize),
     Repeat(9, BlockSize - 3) \o <<5, 3, 3>>}
DecryptCiphertexts(v) == {CBCEncrypt(EncKey(sharedSecret), v, d) : d \in DecryptBlocks}

\* One caller decrypts: by AESDecrypt itself, and by VerifyAndDecryptMessage
\* of envelopes as sent and with another IV, against the clock.
NextDecrypt ==
    \/ \E key \in DecryptKeys, v \in RandomIVs :
           \E c \in DecryptCiphertexts(v) : AESDecrypt(1, key, v, c)
    \/ /\ Requested < MaxMessages
       /\ \E pt \in Plaintexts, r \in RandomIVs : CreateSecureMessage_Begin(1, pt, r)
    \/ AESEncrypt_Check(1)
    \/ AESEncrypt_Body(1)
    \/ CreateSecureMessage_Rest(1)
    \/ \E m \in wire \cup UNION {{ReplacedIV(w, v) : v \in OtherIVs(w.IV)} : w \in wire} :
           VerifyAndDecryptMessage_Begin(1, m)
    \/ VerifyAndDecryptMessage_Checks(1)
    \/ AESDecrypt_Load(1)
    \/ AESDecrypt_Check(1)
    \/ AESDecrypt_Body(1)
    \/ Tick
    \/ ClearOldNonces

SpecDecrypt == Init /\ [][NextDecrypt]_vars

\* ResetNonceStorage, called by a test harness between its other calls.
ResetNonceStorage(p) ==
    /\ UNCHANGED outsideCodec
    /\ pc[p] = "idle"
    /\ nonces' = Reset(nonces)
    /\ ret' = [ret EXCEPT ![p] = [op |-> "reset", plain |-> Nil, err |-> NoError]]
    /\ UNCHANGED <<now, concurrentOps, wire, accepted, pc, current,
                   createLocals, verifyLocals>>

\* One caller sends, receives and resets the tracker, against the clock and
\* the sweeps.
NextReset ==
    \/ /\ Requested < MaxMessages
       /\ \E pt \in Plaintexts, r \in RandomIVs : CreateSecureMessage_Begin(1, pt, r)
    \/ AESEncrypt_Check(1)
    \/ AESEncrypt_Body(1)
    \/ CreateSecureMessage_Rest(1)
    \/ \E m \in wire \cup {Renonced(w, n) : w \in wire, n \in ForgedNonces} :
           VerifyAndDecryptMessage_Begin(1, m)
    \/ VerifyAndDecryptMessage_Checks(1)
    \/ AESDecrypt_Load(1)
    \/ AESDecrypt_Check(1)
    \/ AESDecrypt_Body(1)
    \/ ResetNonceStorage(1)
    \/ Tick
    \/ startCleanup
    \/ ClearOldNonces

SpecReset == Init /\ [][NextReset]_vars

\* The first instant the ticker fires at which every entry recorded up to MaxNow
\* is older than the cleanup interval.
SweepHorizon == ((MaxNow + NonceCleanupInterval) \div SweepPeriod + 1) * SweepPeriod

\* Time passing after the last request.
TickQuiet ==
    /\ UNCHANGED outsideCodec
    /\ now >= MaxNow
    /\ now < SweepHorizon
    /\ now' = now + 1
    /\ UNCHANGED <<nonces, concurrentOps, wire, accepted, pc, current,
                   createLocals, ret, verifyLocals>>

\* The envelopes of the traffic the sweep runs beside: as sent, and with
\* another nonce.
SweepInputs == wire \cup {Renonced(m, n) : m \in wire, n \in ForgedNonces}

\* One caller's requests up to time MaxNow, none after it, and the background
\* sweep of the tracker, which nothing stops: Stop is never called on
\* globalNonceTracker.
NextSweep ==
    \/ /\ now <= MaxNow
       /\ \/ /\ Requested < MaxMessages
              /\ \E pt \in Plaintexts, r \in RandomIVs : CreateSecureMessage_Begin(1, pt, r)
          \/ AESEncrypt_Check(1)
          \/ AESEncrypt_Body(1)
          \/ CreateSecureMessage_Rest(1)
          \/ \E m \in SweepInputs : VerifyAndDecryptMessage_Begin(1, m)
          \/ VerifyAndDecryptMessage_Checks(1)
          \/ AESDecrypt_Load(1)
          \/ AESDecrypt_Check(1)
          \/ AESDecrypt_Body(1)
    \/ Tick
    \/ TickQuiet
    \/ startCleanup

\* Time passes, and the sweeping goroutine, once its ticker has fired, is
\* scheduled and gets nt.mutex.
SpecSweep ==
    /\ Init
    /\ [][NextSweep]_vars
    /\ WF_vars(Tick \/ TickQuiet)
    /\ WF_vars(startCleanup)

\* A burst of concurrent callers, during which the clock stands still.
BurstInputs == wire \cup {ShortIV(m) : m \in wire}

NextConcurrent ==
    \/ /\ Requested < MaxBurstMessages
       /\ \E p \in Callers, pt \in Plaintexts, r \in RandomIVs :
              CreateSecureMessage_Begin(p, pt, r)
    \/ \E p \in Callers : AESEncrypt_Check(p)
    \/ \E p \in Callers : AESEncrypt_Body(p)
    \/ \E p \in Callers : CreateSecureMessage_Rest(p)
    \/ \E p \in Callers, m \in BurstInputs : VerifyAndDecryptMessage_Begin(p, m)
    \/ \E p \in Callers : VerifyAndDecryptMessage_Checks(p)
    \/ \E p \in Callers : AESDecrypt_Load(p)
    \/ \E p \in Callers : AESDecrypt_Check(p)
    \/ \E p \in Callers : AESDecrypt_Body(p)

SpecConcurrent == Init /\ [][NextConcurrent]_vars

\* ------------------------------------------------------------- MAC comparison
\* The inclusive or of two bytes.
RECURSIVE BitOr(_, _)
BitOr(a, b) ==
    IF a = 0 THEN b
    ELSE IF b = 0 THEN a
    ELSE (2 * BitOr(a \div 2, b \div 2)) + (IF a % 2 = 1 \/ b % 2 = 1 THEN 1 ELSE 0)

\* The loop of subtle.ConstantTimeCompare from the state st on:
\* for i := 0; i < len(x); i++ { v |= x[i] ^ y[i] }; st.examined is i, the
\* bytes read so far, and st.v is v.
RECURSIVE CompareLoop(_, _, _)
CompareLoop(x, y, st) ==
    IF st.examined >= Len(x)
    THEN st
    ELSE CompareLoop(x, y, [v |-> BitOr(st.v, BitXor(x[st.examined + 1], y[st.examined + 1])),
                            examined |-> st.examined + 1])

\* A comparison that stops at the first byte that differs.
ConstantTimeCompare_EarlyExit(x, y) ==
    IF Len(x) # Len(y)
    THEN [eq |-> 0, examined |-> 0]
    ELSE IF x = y
    THEN [eq |-> 1, examined |-> Len(x)]
    ELSE [eq |-> 0, examined |-> CHOOSE i \in 1 .. Len(x) :
                                    /\ x[i] # y[i]
                                    /\ \A j \in 1 .. i - 1 : x[j] = y[j]]

\* subtle.ConstantTimeCompare(x, y): 0 at once when the lengths differ, else
\* 1 exactly when the loop over all bytes leaves v = 0.
ConstantTimeCompare(x, y) ==
    IF Len(x) # Len(y)
    THEN [eq |-> 0, examined |-> 0]
    ELSE LET loop == CompareLoop(x, y, [v |-> 0, examined |-> 0])
         IN  [eq |-> IF loop.v = 0 THEN 1 ELSE 0, examined |-> loop.examined]

\* GenerateHMAC on bytes: HMAC-SHA256, a tag of Sha256Size bytes; a stand-in
\* without collisions on the keys and data used.
GenerateHMACBytes(key, data) == Sha256(key \o data)

\* TimingStats.AddMeasurement: the oldest measurement goes when maxSize are kept.
AddMeasurement(measurements, duration) ==
    Append(IF Len(measurements) >= TimingMaxSize
           THEN SubSeq(measurements, 2, Len(measurements))
           ELSE measurements, duration)

\* VerifyHMAC(key, data, mac) on bytes; the time elapsed is counted in the
\* bytes the comparison reads.
VerifyHMACTimed(key, data, mac) ==
    /\ LET expected == GenerateHMACBytes(key, data)
           compared == ConstantTimeCompare(mac, expected)
       IN  /\ hmacTimingStats' = AddMeasurement(hmacTimingStats, compared.examined)
           /\ hmacRet' = [key |-> key, data |-> data, mac |-> mac,
                          result |-> compared.eq = 1]
    /\ UNCHANGED <<now, nonces, concurrentOps, wire, accepted, pc, current, plaintext,
                   iv, ciphertext, msg, ret, checks, unseen, again, retry>>
    /\ UNCHANGED <<maxConcurrentOps, rateVars, agreementVars, trackerVars, paddingVars>>

\* The keys and data of the timing tests, and the tags they present: the
\* right tag, the tag with one byte changed at each position, a tag one byte
\* short and one a byte long.
TimingKeys == {Repeat(1, 4), Repeat(2, 4)}
TimingData == {<<116, 101, 115, 116>>}
TagsFor(tag) ==
    {tag, SubSeq(tag, 1, Len(tag) - 1), Append(tag, 0)}
    \cup {[tag EXCEPT ![i] = FlipBit(@)] : i \in 1 .. Len(tag)}
    \cup {[tag EXCEPT ![i] = @ + 2] : i \in 1 .. Len(tag)}

NextTiming ==
    \E key \in TimingKeys, data \in TimingData :
        \E mac \in TagsFor(GenerateHMACBytes(key, data)) : VerifyHMACTimed(key, data, mac)

SpecTiming == Init /\ [][NextTiming]_vars

\* ---------------------------------------------------------------- rate limiter
Clients == 1 .. NumClients
\* The identifier a caller passes: fmt.Sprintf("attacker_%d", workerID).
ClientID(p) == p

\* The test that also rejects a call made exactly minOpInterval after the last.
RateLimited_Inclusive(map, clientID, t) ==
    /\ clientID \in DOMAIN map
    /\ t - map[clientID] <= minOpInterval

\* RateLimitCheck's test at time t: lastOp exists and now.Sub(lastOp) < minOpInterval.
RateLimited(map, clientID, t) ==
    /\ clientID \in DOMAIN map
    /\ t - map[clientID] < minOpInterval

\* An admitted call that deletes nothing.
PurgeRateLimitMap_Nothing(map, t) == map

\* The purge at the end of an admitted RateLimitCheck: entries before the cutoff go.
PurgeRateLimitMap(map, t) ==
    LET cutoff == t - rateRetention
        kept == {id \in DOMAIN map : ~(map[id] < cutoff)}
    IN  [id \in kept |-> map[id]]

\* A rejection that writes the time of the rejected call.
RejectedCall_Refreshed(map, clientID, t) == [map EXCEPT ![clientID] = t]

\* The map after the early return of a rejected call: no write and no purge.
RejectedCall(map, clientID, t) == map

\* The statements of RateLimitCheck(clientID) between Lock and Unlock.
RateLimitCheckBody(clientID) ==
       IF RateLimited(rateLimitMap, clientID, now)
       THEN /\ rateRet' = [client |-> clientID, err |-> Err(errRateLimit)]
            /\ rateLimitMap' = RejectedCall(rateLimitMap, clientID, now)
            /\ lastRejected' = [id \in DOMAIN lastRejected \cup {clientID} |->
                                   IF id = clientID
                                   THEN [at |-> now, since |-> lastAccepted[clientID]]
                                   ELSE lastRejected[id]]
            /\ UNCHANGED lastAccepted
       ELSE /\ rateLimitMap' = PurgeRateLimitMap(
                   [id \in DOMAIN rateLimitMap \cup {clientID} |->
                       IF id = clientID THEN now ELSE rateLimitMap[id]], now)
            /\ rateRet' = [client |-> clientID, err |-> NoError]
            /\ lastAccepted' = [id \in DOMAIN lastAccepted \cup {clientID} |->
                                   IF id = clientID THEN now ELSE lastAccepted[id]]
            /\ UNCHANGED lastRejected

\* RateLimitCheck(clientID), one critical section of rateLimitMutex.
RateLimitCheck(clientID) ==
    /\ RateLimitCheckBody(clientID)
    /\ UNCHANGED <<now, codecVars, agreementVars>>

\* Clients of the rate limiter against the clock.
NextRateLimit ==
    \/ \E c \in Clients : RateLimitCheck(c)
    \/ Tick

SpecRateLimit == Init /\ [][NextRateLimit]_vars

\* The rate limiter beside the send and receive path of one caller, while the
\* clock stands still.
NextAdmission ==
    \/ \E c \in Clients : RateLimitCheck(c)
    \/ /\ Requested < MaxMessages
       /\ \E pt \in Plaintexts, r \in RandomIVs : CreateSecureMessage_Begin(1, pt, r)
    \/ AESEncrypt_Check(1)
    \/ AESEncrypt_Body(1)
    \/ CreateSecureMessage_Rest(1)
    \/ \E m \in wire : VerifyAndDecryptMessage_Begin(1, m)
    \/ VerifyAndDecryptMessage_Checks(1)
    \/ AESDecrypt_Load(1)
    \/ AESDecrypt_Check(1)
    \/ AESDecrypt_Body(1)

SpecAdmission == Init /\ [][NextAdmission]_vars

\* ------------------------------------------------------------ key agreement
\* The long-term RSA public key of each party, in PKIX bytes.
rsaPublicOf(x) == IF x = "client" THEN "rsa-pub-client" ELSE "rsa-pub-server"

\* x509.ParsePKIXPublicKey and the type of the key it returns.
ParsePKIXPublicKey(bytes) ==
    IF bytes \in RSAPublicKeys \cup {rsaPublicOf(x) : x \in Parties} THEN "rsa"
    ELSE IF bytes \in ECDSAPublicKeys THEN "ecdsa"
    ELSE "error"

\* RSASignDHPublicKey: rsa.SignPKCS1v15 over sha256(dhPublic.Bytes()).
RSASignDHPublicKey(rsaPublic, dhPublic) ==
    [alg |-> "rsa-pkcs1v15", key |-> rsaPublic, data |-> Sha256(Bytes(dhPublic))]

\* RSAVerifyDHPublicKey: rsa.VerifyPKCS1v15 over sha256(dhPublic.Bytes()).
RSAVerifyDHPublicKey(rsaPublic, dhPublic, signature) ==
    signature = RSASignDHPublicKey(rsaPublic, dhPublic)

\* type DHKeyExchange struct, as the peer receives it.
DHKeyExchange(public, signature, rsaPubBytes) ==
    [Public |-> public, DHSignature |-> signature, RSAPublicKey |-> rsaPubBytes]

\* What PerformDHKeyExchange of party x returns, its private value drawn.
ExchangeOf(x) ==
    DHKeyExchange(DHPublic(dhPrivate[x]),
                  RSASignDHPublicKey(rsaPublicOf(x), DHPublic(dhPrivate[x])),
                  rsaPublicOf(x))

\* The exchange the attacker builds from a DH pair and an RSA pair drawn alone.
AttackerExchange ==
    DHKeyExchange(DHPublic(AttackerDHPrivate),
                  RSASignDHPublicKey(attackerRsaPub, DHPublic(AttackerDHPrivate)),
                  attackerRsaPub)

\* What may arrive in place of the exchange e: e itself, e with the DH public
\* value changed (by one, or in sign), e with the signature replaced by the
\* attacker's, e with a key that is no RSA key or no key, or the attacker's own.
InTransit(e) ==
    {e,
     [e EXCEPT !.Public = e.Public + 1],
     [e EXCEPT !.Public = 0 - e.Public],
     [e EXCEPT !.DHSignature = AttackerExchange.DHSignature],
     [e EXCEPT !.RSAPublicKey = ecdsaPub],
     [e EXCEPT !.RSAPublicKey = "not a key"],
     AttackerExchange}

\* ecdsa.GenerateKey in GenerateECDHKeys, of party x.
GenerateECDHKeys(x) ==
    /\ ECDSAPrivate[x] = 0
    /\ \E D \in 1 .. MaxPrivate : ECDSAPrivate' = [ECDSAPrivate EXCEPT ![x] = D]
    /\ UNCHANGED <<SharedSecret, dhPrivate, peerExchange, dhSecret, dhErr>>
    /\ UNCHANGED <<now, codecVars, rateVars>>

\* exchangeKeys of party x: the public keys cross, then
\* info.SharedSecret = ComputeSharedSecret(info.ECDSAPrivate, info.PeerECDSA).
exchangeKeys(x) ==
    /\ ECDSAPrivate[x] # 0
    /\ ECDSAPrivate[Peer(x)] # 0
    /\ SharedSecret[x] = Nil
    /\ SharedSecret' = [SharedSecret EXCEPT ![x] =
           ComputeSharedSecret(ECDSAPrivate[x], ECDHPublic(ECDSAPrivate[Peer(x)]))]
    /\ UNCHANGED <<ECDSAPrivate, dhPrivate, peerExchange, dhSecret, dhErr>>
    /\ UNCHANGED <<now, codecVars, rateVars>>

\* PerformDHKeyExchange of party x: GenerateDHKeyPair draws the private value;
\* the rest of the exchange follows from it (ExchangeOf).
PerformDHKeyExchange(x) ==
    /\ dhPrivate[x] = 0
    /\ \E r \in RandInt(DHPrime - 1) :
           dhPrivate' = [dhPrivate EXCEPT ![x] = GenerateDHKeyPair(r).Private]
    /\ UNCHANGED <<ECDSAPrivate, SharedSecret, peerExchange, dhSecret, dhErr>>
    /\ UNCHANGED <<now, codecVars, rateVars>>

\* VerifyAndComputeSharedSecret(ourDHPrivate, ourDHParams, e) by party x.
VerifyAndComputeSharedSecret(x, e) ==
    /\ dhPrivate[x] # 0
    /\ peerExchange[x] = NoExchange
    /\ peerExchange' = [peerExchange EXCEPT ![x] = e]
    /\ IF ParsePKIXPublicKey(e.RSAPublicKey) = "error"
       THEN /\ dhErr' = [dhErr EXCEPT ![x] = Err(errParseKey)]
            /\ UNCHANGED dhSecret
       ELSE IF ParsePKIXPublicKey(e.RSAPublicKey) # "rsa"
       THEN /\ dhErr' = [dhErr EXCEPT ![x] = Err(errNotRSA)]
            /\ UNCHANGED dhSecret
       ELSE IF ~RSAVerifyDHPublicKey(e.RSAPublicKey, e.Public, e.DHSignature)
       THEN /\ dhErr' = [dhErr EXCEPT ![x] = Err(errDHSignature)]
            /\ UNCHANGED dhSecret
       ELSE /\ dhSecret' = [dhSecret EXCEPT ![x] =
                   ComputeDHSharedSecret(dhPrivate[x], e.Public)]
            /\ UNCHANGED dhErr
    /\ UNCHANGED <<ECDSAPrivate, SharedSecret, dhPrivate>>
    /\ UNCHANGED <<now, codecVars, rateVars>>

\* The two parties agree on keys, by ECDH as the client and server do and by
\* the authenticated DH exchange, whose messages cross a network the attacker
\* controls.
NextKeyAgreement ==
    \/ \E x \in Parties : GenerateECDHKeys(x)
    \/ \E x \in Parties : exchangeKeys(x)
    \/ \E x \in Parties : PerformDHKeyExchange(x)
    \/ \E x \in Parties :
           /\ dhPrivate[Peer(x)] # 0
           /\ \E e \in InTransit(ExchangeOf(Peer(x))) : VerifyAndComputeSharedSecret(x, e)

SpecKeyAgreement == Init /\ [][NextKeyAgreement]_vars

\* One caller sends and receives, one envelope after the other, plaintexts of
\* every shape: empty, shorter than a block, one byte short of a block, whole
\* blocks, and bytes that look like padding.
RoundTripPlaintexts ==
    {Nil, <<7>>, <<1>>, <<16>>, <<7, 2, 2>>, Repeat(7, BlockSize - 1),
     Repeat(7, BlockSize), Repeat(16, BlockSize), Repeat(1, BlockSize + 1),
     Repeat(7, 2 * BlockSize)}

NextRoundTrip ==
    \/ /\ Requested < MaxRoundTrips
       /\ \E pt \in RoundTripPlaintexts, r \in RandomIVs :
              CreateSecureMessage_Begin(1, pt, r)
    \/ AESEncrypt_Check(1)
    \/ AESEncrypt_Body(1)
    \/ CreateSecureMessage_Rest(1)
    \/ \E m \in wire : VerifyAndDecryptMessage_Begin(1, m)
    \/ VerifyAndDecryptMessage_Checks(1)
    \/ AESDecrypt_Load(1)
    \/ AESDecrypt_Check(1)
    \/ AESDecrypt_Body(1)

SpecRoundTrip == Init /\ [][NextRoundTrip]_vars

\* Worker goroutines, as many as the cap allows in flight: each sends a message
\* of its own and receives it, one message after the other.
Workers == 1 .. NumWorkers
InitWorkers == InitWith(NumWorkers)

WorkerMessage(p) == <<p>>
OwnMessages(p) == {m \in wire : m.Cipher.data = PKCS7Pad(WorkerMessage(p))}

NextWorkers ==
    \/ \E p \in Workers, r \in RandomIVs :
           /\ ret[p].op \in {"none", "verify"}
           /\ Cardinality(OwnMessages(p)) < MessagesPerWorker
           /\ CreateSecureMessage_Begin(p, WorkerMessage(p), r)
    \/ \E p \in Workers : AESEncrypt_Check(p)
    \/ \E p \in Workers : AESEncrypt_Body(p)
    \/ \E p \in Workers : CreateSecureMessage_Rest(p)
    \/ \E p \in Workers, m \in wire :
           /\ ret[p].op = "create"
           /\ m \in OwnMessages(p)
           /\ m.Nonce \notin DOMAIN nonces
           /\ VerifyAndDecryptMessage_Begin(p, m)
    \/ \E p \in Workers : VerifyAndDecryptMessage_Checks(p)
    \/ \E p \in Workers : AESDecrypt_Load(p)
    \/ \E p \in Workers : AESDecrypt_Check(p)
    \/ \E p \in Workers : AESDecrypt_Body(p)

SpecWorkers == InitWorkers /\ [][NextWorkers]_vars

\* The same workers over a cap of one slot.  The scheduler runs every
\* goroutine that is inside AESEncrypt or AESDecrypt: neither waits for
\* anything after its ConcurrencyCheck.  Workers are free to make no further
\* call.
SpecWorkersFair ==
    /\ Init
    /\ [][NextWorkers]_vars
    /\ \A p \in Workers :
          /\ WF_vars(AESEncrypt_Check(p))
          /\ WF_vars(AESEncrypt_Body(p))
          /\ WF_vars(AESDecrypt_Check(p))
          /\ WF_vars(AESDecrypt_Body(p))

\* ------------------------------------------------------------------ padding
\* Bytes that are pad counts, near them, or none.
PadBytes == {0, 1, 2, 7, 15, 16, 17, 255}

\* Byte strings up to MaxDataLen: a run of one byte and up to two more bytes.
PadInputs ==
    {Repeat(a, n) \o tail :
        a \in {7, 16}, n \in 0 .. MaxDataLen - 2,
        tail \in {<< >>} \cup {<<b>> : b \in PadBytes}
                 \cup {<<b, c>> : b \in {1, 2, 16}, c \in {1, 2, 16}}}

\* PKCS7Pad(data) called by itself.
Pad(data) ==
    /\ padCall' = [op |-> "pad", data |-> data,
                   out |-> [kind |-> "ok", data |-> PKCS7Pad(data), err |-> ""],
                   padded |-> FALSE, orig |-> Nil]
    /\ UNCHANGED <<now, codecVarsButPadding, rateVars, agreementVars>>

\* PKCS7Unpad called on what PKCS7Pad has just returned.
UnpadPadded ==
    /\ padCall.op = "pad"
    /\ padCall' = [op |-> "unpad", data |-> padCall.out.data,
                   out |-> PKCS7Unpad(padCall.out.data),
                   padded |-> TRUE, orig |-> padCall.data]
    /\ UNCHANGED <<now, codecVarsButPadding, rateVars, agreementVars>>

\* PKCS7Unpad(data) called by itself, on any bytes.
Unpad(data) ==
    /\ padCall' = [op |-> "unpad", data |-> data, out |-> PKCS7Unpad(data),
                   padded |-> FALSE, orig |-> Nil]
    /\ UNCHANGED <<now, codecVarsButPadding, rateVars, agreementVars>>

NextPadding ==
    \/ \E d \in PadInputs : Pad(d)
    \/ UnpadPadded
    \/ \E d \in PadInputs : Unpad(d)

SpecPadding == Init /\ [][NextPadding]_vars

\* ------------------------------------------------- a tracker and its mutex
errClosedChannel == "close of closed channel"

\* NewNonceTracker(maxSize, NonceCleanupInterval): the struct it returns.
NewNonceTracker(maxSize) ==
    [made |-> TRUE, nonces |-> << >>, maxSize |-> maxSize, w |-> {},
     readers |-> {}, stopped |-> FALSE, tick |-> FALSE]

\* The caller makes the tracker, and `go tracker.startCleanup()` starts the
\* sweeper, which waits in its select.
NewTracker(maxSize) ==
    /\ ~nt.made
    /\ nt' = NewNonceTracker(maxSize)
    /\ thr' = [thr EXCEPT ![Sweeper].pc = "select"]
    /\ UNCHANGED <<now, codecVarsButTracker, rateVars, agreementVars, rateLimitMutex>>

\* The methods that take nt.mutex.Lock(), and the one that takes RLock().
WriteOps == {"AddNonce", "Reset", "ClearOldNonces"}
ReadOps == {"GetCount"}

\* A goroutine calls a method of the tracker, or VerifyAndDecryptMessage with a
\* fresh envelope ("Verify"), CreateSecureMessage ("Create") or RateLimitCheck:
\* it stands before the first statement that locks or computes.
Call(t, op, nonce) ==
    /\ nt.made
    /\ thr[t].pc = "idle"
    /\ thr[t].calls < MaxCalls
    /\ thr' = [thr EXCEPT ![t] =
                 [pc |-> CASE op \in WriteOps \cup {"Verify"} -> "lock"
                           [] op \in ReadOps -> "rlock"
                           [] op = "RateLimitCheck" -> "rl_lock"
                           [] op = "Create" -> "crypto"
                           [] OTHER -> "close",
                  op |-> op, nonce |-> nonce, err |-> NoError, count |-> 0,
                  calls |-> @.calls + 1]]
    /\ UNCHANGED <<now, nt, codecVarsButTracker, rateVars, agreementVars, rateLimitMutex>>

\* sync.RWMutex.Lock: the writer takes rw.w and announces itself, which holds
\* back new readers.
Lock(t) ==
    /\ thr[t].pc = "lock"
    /\ nt.w = {}
    /\ nt' = [nt EXCEPT !.w = {t}]
    /\ thr' = [thr EXCEPT ![t].pc = "drain"]
    /\ UNCHANGED <<now, codecVarsButTracker, rateVars, agreementVars, rateLimitMutex>>

\* sync.RWMutex.Lock returns when the readers before it have left.
Drained(t) ==
    /\ thr[t].pc = "drain"
    /\ nt.readers = {}
    /\ thr' = [thr EXCEPT ![t].pc = "in"]
    /\ UNCHANGED <<now, nt, codecVarsButTracker, rateVars, agreementVars, rateLimitMutex>>

\* sync.RWMutex.RLock: granted while no writer has announced itself.
RLock(t) ==
    /\ thr[t].pc = "rlock"
    /\ nt.w = {}
    /\ nt' = [nt EXCEPT !.readers = @ \cup {t}]
    /\ thr' = [thr EXCEPT ![t].pc = "in"]
    /\ UNCHANGED <<now, codecVarsButTracker, rateVars, agreementVars, rateLimitMutex>>

\* A sweep that locks the mutex its caller AddNonce holds.
NextInSection_Relock(op, full) ==
    IF op \in {"AddNonce", "Verify"} /\ full THEN "lock" ELSE "unlock"

\* Where a goroutine stands after the statements of its critical section:
\* before the unlock.  cleanupOldNonces, which AddNonce calls at capacity, takes
\* no lock of its own.
NextInSection(op, full) == "unlock"

\* The statements of the method between taking the mutex and releasing it.
Body(t) ==
    /\ thr[t].pc = "in"
    /\ LET after == NextInSection(thr[t].op, AtCapacity(nt.nonces, nt.maxSize)) IN
       CASE thr[t].op \in {"AddNonce", "Verify"} ->
              LET r == NonceTracker_AddNonce(nt.maxSize, nt.nonces, thr[t].nonce, now)
              IN  /\ nt' = [nt EXCEPT !.nonces = r.nonces]
                  /\ thr' = [thr EXCEPT ![t].pc = after, ![t].err = r.err,
                                        ![t].count = GetCount(nt.nonces)]
         [] thr[t].op = "Reset" ->
              /\ nt' = [nt EXCEPT !.nonces = Reset(@)]
              /\ thr' = [thr EXCEPT ![t].pc = after]
         [] thr[t].op = "GetCount" ->
              /\ thr' = [thr EXCEPT ![t].pc = after, ![t].count = GetCount(nt.nonces)]
              /\ UNCHANGED nt
         [] OTHER ->
              /\ nt' = [nt EXCEPT !.nonces = cleanupOldNonces(@, now)]
              /\ thr' = [thr EXCEPT ![t].pc = after]
    /\ UNCHANGED <<now, codecVarsButTracker, rateVars, agreementVars, rateLimitMutex>>

\* An Unlock that leaves the mutex held.
Released_Kept(holders, t) == holders

\* sync.RWMutex.Unlock and RUnlock: the goroutine holds the mutex no longer.
Released(holders, t) == holders \ {t}

\* The deferred Unlock or RUnlock, and the return, after which the caller has
\* used what the method returned; the sweeper, which unlocks inside its loop,
\* goes back to its select, and VerifyAndDecryptMessage goes on to steps 3 to 6
\* when AddNonce returned nil.
Unlock(t) ==
    /\ thr[t].pc = "unlock"
    /\ nt' = [nt EXCEPT !.w = Released(@, t), !.readers = Released(@, t)]
    /\ thr' = [thr EXCEPT ![t] =
                 IF thr[t].op = "Verify" /\ thr[t].err = NoError
                 THEN [@ EXCEPT !.pc = "crypto"]
                 ELSE [NoCall EXCEPT !.calls = thr[t].calls,
                                     !.pc = IF t = Sweeper THEN "select" ELSE "idle"]]
    /\ UNCHANGED <<now, codecVarsButTracker, rateVars, agreementVars, rateLimitMutex>>

\* NonceTracker.Stop: close(nt.stopChan), which panics on a closed channel.
Stop(t) ==
    /\ thr[t].pc = "close"
    /\ IF nt.stopped
       THEN /\ thr' = [thr EXCEPT ![t].pc = "panicked", ![t].err = Err(errClosedChannel)]
            /\ UNCHANGED nt
       ELSE /\ nt' = [nt EXCEPT !.stopped = TRUE]
            /\ thr' = [thr EXCEPT ![t] = [NoCall EXCEPT !.calls = thr[t].calls]]
    /\ UNCHANGED <<now, codecVarsButTracker, rateVars, agreementVars, rateLimitMutex>>

\* The select of startCleanup takes a delivery of ticker.C and goes to lock the
\* mutex; with both channels ready the runtime takes either.
SelectTick ==
    /\ thr[Sweeper].pc = "select"
    /\ nt.tick
    /\ nt' = [nt EXCEPT !.tick = FALSE]
    /\ thr' = [thr EXCEPT ![Sweeper].pc = "lock", ![Sweeper].op = "sweep"]
    /\ UNCHANGED <<now, codecVarsButTracker, rateVars, agreementVars, rateLimitMutex>>

\* The select of startCleanup takes the closed stopChan and the goroutine returns.
SelectStop ==
    /\ thr[Sweeper].pc = "select"
    /\ nt.stopped
    /\ thr' = [thr EXCEPT ![Sweeper].pc = "done"]
    /\ UNCHANGED <<now, nt, codecVarsButTracker, rateVars, agreementVars, rateLimitMutex>>

\* The clock beside a tracker: the ticker's channel, of capacity one, holds a
\* delivery at every multiple of its period until the sweeper has returned.
TrackerTick ==
    /\ nt.made
    /\ now < MaxNow
    /\ now' = now + 1
    /\ nt' = [nt EXCEPT !.tick = @ \/ (TickerFires(now + 1) /\ thr[Sweeper].pc # "done")]
    /\ UNCHANGED <<thr, codecVarsButTracker, rateVars, agreementVars, rateLimitMutex>>

\* The cryptographic statements of a call: GenerateHMAC, SignECDSA, SignRSA and
\* AESEncrypt of CreateSecureMessage; VerifyHMAC, VerifyECDSA, VerifyRSA and
\* AESDecrypt of VerifyAndDecryptMessage.
Crypto(t) ==
    /\ thr[t].pc = "crypto"
    /\ thr' = [thr EXCEPT ![t] = [NoCall EXCEPT !.calls = thr[t].calls]]
    /\ UNCHANGED <<now, nt, codecVarsButTracker, rateVars, agreementVars, rateLimitMutex>>

\* rateLimitMutex.Lock()
RateLock(t) ==
    /\ thr[t].pc = "rl_lock"
    /\ rateLimitMutex = {}
    /\ rateLimitMutex' = {t}
    /\ thr' = [thr EXCEPT ![t].pc = "rl_in"]
    /\ UNCHANGED <<now, nt, codecVarsButTracker, rateVars, agreementVars>>

\* The statements of RateLimitCheck under rateLimitMutex.
RateBody(t) ==
    /\ thr[t].pc = "rl_in"
    /\ RateLimitCheckBody(ClientID(t))
    /\ thr' = [thr EXCEPT ![t].pc = "rl_unlock", ![t].err = rateRet'.err]
    /\ UNCHANGED <<now, nt, codecVarsButTracker, agreementVars, rateLimitMutex>>

\* The deferred rateLimitMutex.Unlock(), and the return.
RateUnlock(t) ==
    /\ thr[t].pc = "rl_unlock"
    /\ rateLimitMutex' = Released(rateLimitMutex, t)
    /\ thr' = [thr EXCEPT ![t] = [NoCall EXCEPT !.calls = thr[t].calls]]
    /\ UNCHANGED <<now, nt, codecVarsButTracker, rateVars, agreementVars>>

TrackerOps == WriteOps \cup ReadOps \cup {"Stop"}

\* Goroutines on a tracker of their own, its sweeper and the clock.
NextTracker ==
    \/ \E k \in 1 .. MaxTrackerSize : NewTracker(k)
    \/ \E t \in Threads, op \in TrackerOps, n \in 1 .. TrackerNonces : Call(t, op, n)
    \/ \E t \in Threads \cup {Sweeper} : Lock(t) \/ Drained(t) \/ Body(t) \/ Unlock(t)
    \/ \E t \in Threads : RLock(t) \/ Stop(t)
    \/ SelectTick
    \/ SelectStop
    \/ TrackerTick

SpecTracker == Init /\ [][NextTracker]_vars

\* The scheduler runs every goroutine that can take a step; a goroutine that
\* waits for the mutex gets it once it has been free often enough (the mutex
\* hands over to its longest waiter).  Callers are free to make no call.
TrackerFairness ==
    /\ \A t \in Threads \cup {Sweeper} :
          /\ SF_vars(Lock(t))
          /\ WF_vars(Drained(t))
          /\ WF_vars(Body(t))
          /\ WF_vars(Unlock(t))
    /\ \A t \in Threads : SF_vars(RLock(t)) /\ WF_vars(Stop(t))
    /\ WF_vars(SelectTick)
    /\ WF_vars(SelectStop)
    /\ WF_vars(TrackerTick)

SpecTrackerFair == SpecTracker /\ TrackerFairness

\* The calls that take a lock or compute a MAC, a signature or a cipher.
LockOps == {"Verify", "Create", "RateLimitCheck", "GetCount", "Reset", "ClearOldNonces"}

\* Goroutines that send, receive and ask the rate limiter, beside the sweeper.
NextLocks ==
    \/ \E k \in 1 .. MaxTrackerSize : NewTracker(k)
    \/ \E t \in Threads, op \in LockOps, n \in 1 .. TrackerNonces : Call(t, op, n)
    \/ \E t \in Threads \cup {Sweeper} : Lock(t) \/ Drained(t) \/ Body(t) \/ Unlock(t)
    \/ \E t \in Threads : RLock(t) \/ Crypto(t)
    \/ \E t \in Threads : RateLock(t) \/ RateBody(t) \/ RateUnlock(t)
    \/ SelectTick
    \/ TrackerTick

SpecLocks == Init /\ [][NextLocks]_vars

\* ===================================================================== claims
Returned(p) == pc[p] = "idle" /\ ret[p].op = "verify"
Decrypting(p) == pc[p] \in {"dec_load", "dec_test", "dec_body"}
\* An envelope as CreateSecureMessage builds it when AESEncrypt was admitted.
WellBuilt(m) == m \in wire /\ m.Cipher # NoTerm

\* C1: the in-flight counter concurrentOps never exceeds maxConcurrentOps,
\* whatever the interleaving of the callers of AESEncrypt and AESDecrypt.
C1_CounterWithinCap == concurrentOps <= maxConcurrentOps

\* Every caller has verified envelope m, each call having begun before the
\* nonce of m was recorded.
SameEnvelopeRace(m) ==
    \A p \in Callers : Returned(p) /\ msg[p] = m /\ unseen[p]

\* C2: when every caller verifies the same well-built, fresh envelope, all of the
\* calls having begun before its nonce was recorded, exactly one call returns
\* the plaintext and every other call returns the replay error of AddNonce; and
\* no two callers are past the nonce check with the same nonce.
C2_ExactlyOneAccepts ==
    /\ \A m \in wire :
           WellBuilt(m) /\ SameEnvelopeRace(m) =>
               /\ Cardinality({p \in Callers : ret[p].err = NoError}) = 1
               /\ \A p \in Callers :
                      ret[p].err # NoError => ret[p].err = Err(errReplay)
    /\ \A p, q \in Callers :
           /\ p # q
           /\ Len(checks[p]) > 2
           /\ Len(checks[q]) > 2
           => msg[p].Nonce # msg[q].Nonce

C2_Witness ==
    \E m \in wire :
        /\ WellBuilt(m)
        /\ SameEnvelopeRace(m)
        /\ \E p \in Callers : ret[p].err = Err(errReplay)

\* C7: CreateSecureMessage returns no assembled envelope when AESEncrypt was
\* denied admission: no envelope with a nil ciphertext is ever returned.
C7_NoEnvelopeWithoutCiphertext == \A m \in wire : m.Cipher # NoTerm

\* C9: a verification of a well-built envelope that repeats one denied admission
\* at the decrypt step, and is not denied again (a slot is free), returns the
\* plaintext (unless another call has accepted an envelope with that nonce
\* meanwhile).
C9_DeniedVerifyRetriable ==
    \A p \in Callers :
        /\ Returned(p)
        /\ retry[p]
        /\ WellBuilt(msg[p])
        /\ ret[p].err # errDecrypt(errConcurrency)
        /\ concurrentOps < maxConcurrentOps
        => \/ ret[p].err = NoError
           \/ \E a \in accepted : a.Nonce = msg[p].Nonce

\* C10: concurrentOps equals the number of AESEncrypt/AESDecrypt calls admitted
\* and not yet released, on every way out of them, and is never negative.
C10_CounterCountsInFlight ==
    /\ concurrentOps = Cardinality(InFlight)
    /\ concurrentOps >= 0

\* One caller has panicked inside AESDecrypt and one has returned a padding
\* error (on the envelope a denied AESEncrypt left without ciphertext).
C10_Witness ==
    \E p, q \in Callers :
        /\ pc[p] = "panicked"
        /\ Returned(q) /\ ret[q].err = errDecrypt(errEmptyData)
        /\ concurrentOps = 0

\* Inside the freshness window at the present time.
Fresh(m) == ~TimestampOutOfRange(Unix(now), m.Timestamp)

C3_SecondAttempt ==
    \A p \in Callers :
        Returned(p) /\ again[p] /\ Fresh(msg[p]) => ret[p].err = Err(errReplay)

C3_WhilePresent ==
    \A p \in Callers :
        pc[p] = "ver_nonce" /\ pc'[p] # "ver_nonce" /\ msg[p].Nonce \in DOMAIN nonces
        => pc'[p] = "idle" /\ ret'[p].err = Err(errReplay)

\* C3: a verification of an envelope that had been accepted before the call
\* began, the envelope still being inside the freshness window when the call
\* returns, fails with the replay error; and any verification whose nonce is in
\* the tracker at its nonce check is rejected with the replay error.
C3_ReplayRejected == [](C3_SecondAttempt) /\ [][C3_WhilePresent]_vars

C3_Witness ==
    \E p \in Callers :
        /\ Returned(p) /\ again[p] /\ Fresh(msg[p])
        /\ msg[p] \in wire
        /\ ret[p].err = Err(errReplay)

\* C4: an envelope that has been accepted is never accepted again: no
\* verification of an envelope accepted before the call began returns the
\* plaintext, whatever time has passed and whatever sweeps have run.
C4_NeverAcceptedAgain ==
    \A p \in Callers : Returned(p) /\ again[p] => ret[p].err # NoError

CheckOrder == <<"timestamp", "nonce", "hmac", "ecdsa", "rsa", "decrypt">>

Authentic(m) ==
    /\ VerifyHMAC(MacKey(sharedSecret), m.Cipher, m.HMAC)
    /\ VerifyECDSA(m.PubKey, m.Cipher, m.Signature)
    /\ VerifyRSA(rsaPub, m.Cipher, m.RSASig)

\* C5: the checks run in the order timestamp, nonce, HMAC, ECDSA, RSA, decrypt;
\* a call returns at the first failing check, having evaluated none after it;
\* AESDecrypt is entered only with an envelope whose MAC and two signatures
\* verify.
C5_ChecksInOrder ==
    \A p \in Callers :
        LET m == msg[p]
            n == Len(checks[p])
        IN  /\ n <= Len(CheckOrder)
            /\ checks[p] = SubSeq(CheckOrder, 1, n)
            /\ Returned(p) =>
                   /\ ret[p].err = Err(errTimestamp) => n = 1
                   /\ ret[p].err = Err(errReplay) => n = 2
                   /\ ret[p].err = Err(errHMAC) =>
                          n = 3 /\ ~VerifyHMAC(MacKey(sharedSecret), m.Cipher, m.HMAC)
                   /\ ret[p].err = Err(errECDSA) =>
                          /\ n = 4
                          /\ VerifyHMAC(MacKey(sharedSecret), m.Cipher, m.HMAC)
                          /\ ~VerifyECDSA(m.PubKey, m.Cipher, m.Signature)
                   /\ ret[p].err = Err(errRSA) =>
                          /\ n = 5
                          /\ VerifyHMAC(MacKey(sharedSecret), m.Cipher, m.HMAC)
                          /\ VerifyECDSA(m.PubKey, m.Cipher, m.Signature)
                          /\ ~VerifyRSA(rsaPub, m.Cipher, m.RSASig)
                   /\ ret[p].err \notin {Err(errTimestamp), Err(errReplay), Err(errHMAC),
                                        Err(errECDSA), Err(errRSA)} => n = 6
            /\ (Decrypting(p) \/ n = 6) => n >= 5 /\ Authentic(m)

\* A forged RSA signature stopped at the fifth check.
C5_Witness ==
    \E p \in Callers :
        /\ Returned(p)
        /\ ret[p].err = Err(errRSA)
        /\ checks[p] = SubSeq(CheckOrder, 1, 5)

Distance(a, b) == IF a >= b THEN a - b ELSE b - a

\* The step in which caller p runs the timestamp check.
VerifyBegins(p) ==
    /\ pc[p] = "idle"
    /\ \/ pc'[p] = "ver_nonce"
       \/ /\ pc'[p] = "idle"
          /\ <<msg'[p], ret'[p], checks'[p], unseen'[p], again'[p], retry'[p]>>
                 # <<msg[p], ret[p], checks[p], unseen[p], again[p], retry[p]>>

C6_FreshnessStep ==
    \A p \in Callers :
        VerifyBegins(p) =>
            ( (pc'[p] = "idle" /\ ret'[p].err = Err(errTimestamp))
              <=> Distance(Unix(now), msg'[p].Timestamp) > MaxTimeDifference )

C8_NonceOnlyWhenAccepted ==
    \A n \in DOMAIN nonces :
        \/ \E a \in accepted : a.Nonce = n
        \/ \E p \in Callers : Decrypting(p) /\ msg[p].Nonce = n

\* The plaintexts CreateSecureMessage can have built envelope m from.
PlaintextsOf(m) ==
    {P \in RoundTripPlaintexts :
        m.Cipher = CBCEncrypt(EncKey(sharedSecret), m.IV, PKCS7Pad(P))}

\* C11: VerifyAndDecryptMessage of an envelope CreateSecureMessage built from
\* plaintext P returns exactly P and no error, when the envelope is fresh, its
\* nonce was unseen and admission was granted; for the empty plaintext and for
\* whole blocks too.
C11_RoundTrip ==
    \A p \in Callers :
        /\ Returned(p)
        /\ msg[p] \in wire
        /\ unseen[p]
        /\ ret[p].err \notin {Err(errTimestamp), errDecrypt(errConcurrency)}
        => /\ ret[p].err = NoError
           /\ PlaintextsOf(msg[p]) # {}
           /\ \A P \in PlaintextsOf(msg[p]) : ret[p].plain = P

\* Whole blocks of bytes that look like padding came back, and so did the
\* empty plaintext.
C11_Witness ==
    /\ Returned(1)
    /\ ret[1].err = NoError
    /\ ret[1].plain = Repeat(16, BlockSize)
    /\ \E m \in accepted : Nil \in PlaintextsOf(m)

\* Envelope m is envelope w of the wire with its ciphertext, MAC, ECDSA
\* signature or RSA signature changed, and nothing else.
TamperedCopyOf(m, w) ==
    /\ w \in wire
    /\ m # w
    /\ <<m.Timestamp, m.Nonce, m.IV, m.PubKey>> = <<w.Timestamp, w.Nonce, w.IV, w.PubKey>>

\* C15: an envelope is accepted only if both its signatures were made with
\* the sender's keys, whatever public key it carries in PubKey.
C15_SignedBySender ==
    \A p \in Callers :
        Returned(p) /\ ret[p].err = NoError =>
            /\ msg[p].Signature.rs.key = ecdsaPub
            /\ msg[p].RSASig.key = rsaPub

\* C16: a verification of an envelope of the wire whose ciphertext, MAC, ECDSA
\* signature or RSA signature was changed returns an error and no plaintext.
C16_TamperDetected ==
    \A p \in Callers :
        (\E w \in wire : TamperedCopyOf(msg[p], w)) =>
            /\ pc[p] # "panicked"
            /\ Returned(p) => ret[p].err # NoError /\ ret[p].plain = Nil

\* C12: with as many workers as the cap allows, each sending and receiving its
\* own messages, admission is never denied (no envelope is built without
\* ciphertext, no call is in a denied branch) and every round trip returns the
\* worker's plaintext with no error.
C12_WorkersNeverDenied ==
    /\ \A m \in wire : m.Cipher # NoTerm
    /\ \A p \in Workers :
           /\ pc[p] \in {"enc_test", "dec_test"} => ~LimitReached(current[p])
           /\ Returned(p) =>
                  ret[p].err = NoError /\ ret[p].plain = WorkerMessage(p)

\* A worker has its plaintext back while another, admitted with the other slot
\* taken when it looked, is inside AES.
C12_Witness ==
    \E p, q \in Workers :
        /\ p # q
        /\ Returned(p) /\ ret[p].plain = WorkerMessage(p)
        /\ pc[q] \in {"enc_body", "dec_body"}
        /\ current[q] = maxConcurrentOps - 1

\* C13: no AES encryption or decryption runs on the send or receive path
\* unless both gates have admitted the caller: RateLimitCheck its client
\* identifier, and ConcurrencyCheck the call.
C13_BothGatesAdmit ==
    \A p \in Callers :
        pc[p] \in {"enc_body", "dec_body"} =>
            /\ ClientID(p) \in DOMAIN lastAccepted
            /\ ~LimitReached(current[p])

\* The outcome of a RateLimitCheck step for client c, against the time the
\* client was last admitted.
C14_Step ==
    \A c \in Clients :
        (<<rateRet, rateLimitMap>>' # <<rateRet, rateLimitMap>> /\ rateRet'.client = c) =>
            LET tooSoon == /\ c \in DOMAIN lastAccepted
                           /\ now - lastAccepted[c] < minOpInterval
            IN  /\ rateRet'.err = Err(errRateLimit) <=> tooSoon
                /\ rateRet'.err = NoError <=> ~tooSoon
                /\ tooSoon => UNCHANGED <<rateLimitMap, lastAccepted>>
                /\ ~tooSoon => /\ c \in DOMAIN rateLimitMap'
                               /\ rateLimitMap'[c] = now

\* C14: RateLimitCheck rejects a client exactly when less than minOpInterval
\* has passed since that client was last admitted, whatever other clients
\* have done; otherwise it admits the client and records the present time.
C14_RateLimitExact == [][C14_Step]_vars

\* A client is rejected although another client's entry has been purged: the
\* clock has passed the retention.
C14_Witness ==
    \E c, d \in Clients :
        /\ c # d
        /\ rateRet = [client |-> d, err |-> Err(errRateLimit)]
        /\ c \in DOMAIN lastAccepted
        /\ c \notin DOMAIN rateLimitMap

\* C17: every shared secret the key agreement produces and hands to the codec
\* is at least 64 bytes long, so that sharedSecret[:32] and sharedSecret[32:]
\* are disjoint and the MAC key is not empty.
C17_SecretAtLeast64 ==
    \A x \in Parties :
        /\ SharedSecret[x] # Nil =>
               /\ Len(SharedSecret[x]) >= 64
               /\ MacKey(SharedSecret[x]) # Nil
        /\ dhSecret[x] # Nil =>
               /\ Len(dhSecret[x]) >= 64
               /\ MacKey(dhSecret[x]) # Nil

\* C18: the key agreement is symmetric: the two parties' ECDH secrets are
\* equal, ComputeSharedSecret(privA, pubB) = ComputeSharedSecret(privB, pubA),
\* and so are their DH secrets whenever each received the other's value,
\* ComputeDHSharedSecret(a, g^b mod p) = ComputeDHSharedSecret(b, g^a mod p).
C18_Symmetry ==
    /\ (\A x \in Parties : SharedSecret[x] # Nil) =>
           SharedSecret["client"] = SharedSecret["server"]
    /\ (\A x \in Parties : ECDSAPrivate[x] # 0) =>
           ComputeSharedSecret(ECDSAPrivate["client"], ECDHPublic(ECDSAPrivate["server"]))
             = ComputeSharedSecret(ECDSAPrivate["server"], ECDHPublic(ECDSAPrivate["client"]))
    /\ (\A x \in Parties : dhPrivate[x] # 0) =>
           ComputeDHSharedSecret(dhPrivate["client"], DHPublic(dhPrivate["server"]))
             = ComputeDHSharedSecret(dhPrivate["server"], DHPublic(dhPrivate["client"]))
    /\ (\A x \in Parties : dhSecret[x] # Nil /\ peerExchange[x] = ExchangeOf(Peer(x))) =>
           dhSecret["client"] = dhSecret["server"]

\* Both parties hold secrets of both kinds, from different private keys.
C18_Witness ==
    /\ \A x \in Parties : SharedSecret[x] # Nil
    /\ \A x \in Parties : dhSecret[x] # Nil /\ peerExchange[x] = ExchangeOf(Peer(x))
    /\ ECDSAPrivate["client"] # ECDSAPrivate["server"]
    /\ dhPrivate["client"] # dhPrivate["server"]

\* C19: VerifyAndComputeSharedSecret returns an error and no shared secret if
\* the DH public value was altered after signing, the signature and the RSA
\* key unchanged, or if the RSA key cannot be parsed or is not an RSA key.
C19_AlteredValueAborts ==
    \A x \in Parties :
        LET e == peerExchange[x]
            sent == ExchangeOf(Peer(x))
        IN  (/\ e # NoExchange
             /\ \/ /\ e.Public # sent.Public
                    /\ e.DHSignature = sent.DHSignature
                    /\ e.RSAPublicKey = sent.RSAPublicKey
                 \/ ParsePKIXPublicKey(e.RSAPublicKey) # "rsa")
            => /\ dhErr[x] # NoError
               /\ dhSecret[x] = Nil

\* C20: VerifyAndComputeSharedSecret returns a shared secret only for a DH
\* public value that the genuine peer's long-term RSA key signed (the peer's
\* signature verifies for it under the peer's key), whatever the attacker
\* rewrote in the exchange message.
C20_OnlyGenuineValue ==
    \A x \in Parties :
        dhSecret[x] # Nil =>
            RSAVerifyDHPublicKey(rsaPublicOf(Peer(x)), peerExchange[x].Public,
                                 ExchangeOf(Peer(x)).DHSignature)

\* C21: GenerateDHKeyPair produces a private exponent in [1, p-2] and a public
\* value equal to g^private mod p.
C21_PrivateInRange ==
    \A x \in Parties :
        dhPrivate[x] # 0 =>
            /\ dhPrivate[x] \in 1 .. DHPrime - 2
            /\ ExchangeOf(x).Public = expNN(DHGenerator, dhPrivate[x], DHPrime)

C22_Step ==
    \A p \in Callers :
        (pc[p] = "ver_nonce" /\ pc'[p] # "ver_nonce") =>
            LET nonce == msg[p].Nonce
                present == nonce \in DOMAIN nonces
            IN  /\ (pc'[p] = "idle" /\ ret'[p].err = Err(errReplay)) <=> present
                /\ present => nonces' = nonces
                /\ ~present => /\ nonce \in DOMAIN nonces'
                               /\ nonces'[nonce] = now

\* C22: AddNonce returns an error if and only if the nonce is already present;
\* a nonce that is not present is always inserted, with the present time, even
\* when the tracker holds maxSize entries or more and the sweep frees nothing.
C22_CapAdvisory == [][C22_Step]_vars

\* The tracker holds more entries than its size cap: a nonce went in although
\* the tracker was full and the sweep freed nothing.
C22_Witness == Cardinality(DOMAIN nonces) > MaxNonceStorage

\* C23: the background sweep runs whatever the traffic, so every recorded
\* nonce is eventually removed, and a tracker that receives no new nonces
\* eventually becomes empty and stays so.
C23_SweepLiveness ==
    /\ \A n \in 1 .. MaxMessages + NumForgedNonces :
           (n \in DOMAIN nonces) ~> (n \notin DOMAIN nonces)
    /\ <>[](nonces = << >>)

\* The tracker is empty again after an envelope's nonce had been recorded.
C23_Witness ==
    /\ nonces = << >>
    /\ accepted # {}
    /\ now > MaxNow

\* A verification that returned because the freshness check, the MAC, the
\* ECDSA signature or the RSA signature failed.
AuthenticityFailure(r, cs) ==
    /\ r.op = "verify"
    /\ r.err # NoError
    /\ cs # << >>
    /\ cs[Len(cs)] \in {"timestamp", "hmac", "ecdsa", "rsa"}

C24_Step ==
    \A p \in Callers :
        (/\ AuthenticityFailure(ret[p], checks[p])
         /\ AuthenticityFailure(ret'[p], checks'[p]))
        => ret'[p].err = ret[p].err

\* C24: the error VerifyAndDecryptMessage returns for a freshness violation, a
\* MAC mismatch, an invalid ECDSA signature and an invalid RSA signature is
\* the same value: two such rejections, one after the other, cannot be told
\* apart.
C24_Indistinguishable == [][C24_Step]_vars

\* Envelope m is envelope w but for its nonce, its timestamp and its IV.
FieldVariantOf(m, w) ==
    m = [w EXCEPT !.Nonce = m.Nonce, !.Timestamp = m.Timestamp, !.IV = m.IV]

C28_Step ==
    \A p \in Callers :
        (/\ pc[p] = "ver_nonce"
         /\ pc'[p] # "ver_nonce"
         /\ \E w \in wire : FieldVariantOf(msg[p], w)
         /\ msg[p].Nonce \notin DOMAIN nonces)
        => /\ pc'[p] = "dec_load"
           /\ checks'[p] = <<"timestamp", "nonce", "hmac", "ecdsa", "rsa">>

\* C28: the MAC and both signatures cover the ciphertext only: an envelope
\* made from a valid one by replacing the nonce with an unseen value, the
\* timestamp with one inside the window, or the IV passes the MAC check and
\* both signature checks and goes on to decryption.
C28_OnlyCiphertextCovered == [][C28_Step]_vars

\* Accepted: an envelope with a nonce the sender never drew, and one with an
\* IV the sender never drew.
C28_Witness ==
    \E a, b \in accepted : \E w \in wire :
        /\ FieldVariantOf(a, w) /\ a.Nonce # w.Nonce
        /\ FieldVariantOf(b, w) /\ b.IV # w.IV

\* A decryption that failed, in AESDecrypt called by itself or in the decrypt
\* step of VerifyAndDecryptMessage, for another reason than the concurrency cap.
DecryptFailure(r, cs) ==
    \/ /\ r.op = "decrypt"
       /\ r.err \notin {NoError, Err(errConcurrency)}
    \/ /\ r.op = "verify"
       /\ cs # << >>
       /\ cs[Len(cs)] = "decrypt"
       /\ r.err \notin {NoError, errDecrypt(errConcurrency)}

C25_Step ==
    \A p \in Callers :
        (/\ DecryptFailure(ret[p], checks[p])
         /\ DecryptFailure(ret'[p], checks'[p])
         /\ ret'[p].op = ret[p].op)
        => ret'[p].err = ret[p].err

\* C25: the error of a failed decryption is the same whether the data was
\* empty, the pad byte out of range, the pad bytes inconsistent or the key
\* bad: two failures of AESDecrypt, or of the decrypt step of
\* VerifyAndDecryptMessage, one after the other, carry the same error.
C25_GenericDecryptFailure == [][C25_Step]_vars

\* Right after ResetNonceStorage: no entry, and every nonce is taken as new.
C26_AfterReset ==
    \A p \in Callers :
        ret[p].op = "reset" =>
            /\ GetCount(nonces) = 0
            /\ \A n \in 1 .. MaxMessages + NumForgedNonces :
                   AddNonce(nonces, n, now).err = NoError

\* An entry no older than the cleanup interval leaves the tracker only in a
\* step of ResetNonceStorage, in which no send or receive call moves.
C26_YoungEntryStays ==
    (\E n \in DOMAIN nonces :
        /\ now - nonces[n] <= NonceCleanupInterval
        /\ n \notin DOMAIN nonces')
    => \E p \in Callers :
           /\ ret'[p].op = "reset"
           /\ UNCHANGED <<pc, msg, wire, accepted, checks>>

\* C26: ResetNonceStorage clears the tracker: right afterwards GetCount is 0
\* and every nonce recorded before is accepted as new; CreateSecureMessage and
\* VerifyAndDecryptMessage never reset it, so no step of theirs, nor of the
\* sweeps, removes an entry younger than the cleanup interval.
C26_ResetClears == [](C26_AfterReset) /\ [][C26_YoungEntryStays]_vars

\* An envelope accepted before is accepted again while its first entry would
\* still have been young: the tracker was reset in between.
C26_Witness ==
    \E p \in Callers :
        /\ Returned(p) /\ again[p]
        /\ ret[p].err = NoError
        /\ now <= NonceCleanupInterval

\* C27: VerifyHMAC returns true exactly when the tag given equals the HMAC
\* computed anew, and for a tag of the right length the comparison reads the
\* whole tag, wherever the first differing byte is: the time it takes,
\* counted in bytes read, is the same for every such tag.
C27_ConstantTime ==
    hmacRet # NoHMACReturn =>
        LET expected == GenerateHMACBytes(hmacRet.key, hmacRet.data)
        IN  /\ hmacRet.result <=> hmacRet.mac = expected
            /\ Len(hmacRet.mac) = Len(expected) =>
                   hmacTimingStats[Len(hmacTimingStats)] = Len(expected)

\* A wrong tag that differs from the right one in its first byte, rejected
\* after the whole tag was read.
C27_Witness ==
    /\ hmacRet # NoHMACReturn
    /\ ~hmacRet.result
    /\ Len(hmacRet.mac) = Sha256Size
    /\ hmacRet.mac[1] # GenerateHMACBytes(hmacRet.key, hmacRet.data)[1]
    /\ hmacTimingStats = <<Sha256Size>>

C29_Step ==
    \A p \in Callers :
        (VerifyBegins(p) /\ pc'[p] = "idle" /\ ret'[p].err = Err(errTimestamp))
        => /\ nonces' = nonces
           /\ GetCount(nonces') = GetCount(nonces)

\* C29: a verification rejected because the timestamp is outside the window
\* leaves the nonce tracker as it was: the envelope's nonce is not recorded,
\* and contents and size are those before the call.
C29_FreshnessRejectionFrame == [][C29_Step]_vars

\* Rejected for its timestamp: an envelope whose nonce the tracker, which is
\* not empty, does not hold.
C29_Witness ==
    \E p \in Callers :
        /\ Returned(p)
        /\ ret[p].err = Err(errTimestamp)
        /\ msg[p].Nonce \notin DOMAIN nonces
        /\ nonces # << >>

\* A step in which RateLimitCheck turns client c away.
Rejects(c) ==
    /\ rateRet' = [client |-> c, err |-> Err(errRateLimit)]
    /\ <<rateRet, lastRejected>>' # <<rateRet, lastRejected>>

C30_Step ==
    \A c \in Clients :
        /\ Rejects(c) => rateLimitMap' = rateLimitMap
        /\ ( /\ <<rateRet, rateLimitMap, lastRejected>>' # <<rateRet, rateLimitMap, lastRejected>>
             /\ rateRet'.client = c
             /\ c \in DOMAIN lastAccepted
             /\ now - lastAccepted[c] >= minOpInterval )
           => rateRet'.err = NoError

\* C30: a rejected RateLimitCheck leaves the rate-limit map as it was, the
\* client's time not refreshed and no entry purged, so every entry is the time
\* of an admitted call, and a call made minOpInterval or more after the
\* client's last admitted call is admitted, whatever was rejected in between.
C30_RejectionFrame ==
    /\ [](\A c \in DOMAIN rateLimitMap :
            c \in DOMAIN lastAccepted /\ rateLimitMap[c] = lastAccepted[c])
    /\ [][C30_Step]_vars

\* A client admitted exactly minOpInterval after its last admitted call,
\* having been rejected in between, later than that call.
C30_Witness ==
    \E c \in Clients :
        /\ rateRet = [client |-> c, err |-> NoError]
        /\ lastAccepted[c] = now
        /\ c \in DOMAIN lastRejected
        /\ lastRejected[c].since = now - minOpInterval
        /\ lastRejected[c].at > lastRejected[c].since

\* A step in which RateLimitCheck admits client c.
Admits(c) ==
    /\ lastAccepted' # lastAccepted
    /\ rateRet' = [client |-> c, err |-> NoError]

C31_Step ==
    /\ \A c \in Clients :
          Admits(c) =>
              /\ \A id \in DOMAIN rateLimitMap' : now - rateLimitMap'[id] <= rateRetention
              /\ c \in DOMAIN rateLimitMap'
              /\ rateLimitMap'[c] = now
    /\ \A id \in DOMAIN rateLimitMap :
          now - rateLimitMap[id] < rateRetention => id \in DOMAIN rateLimitMap'

\* C31: after every admitted RateLimitCheck the map holds no entry older than
\* the retention window and holds the caller's entry, just recorded; no step
\* removes an entry younger than the retention window.
C31_OpportunisticEviction == [][C31_Step]_vars

\* An admitted call has purged another client's entry and kept its own.
C31_Witness ==
    \E c, d \in Clients :
        /\ c # d
        /\ rateRet = [client |-> c, err |-> NoError]
        /\ c \in DOMAIN rateLimitMap
        /\ rateLimitMap[c] = now
        /\ d \in DOMAIN lastAccepted
        /\ d \notin DOMAIN rateLimitMap

\* Goroutine t runs the statements of AddNonce with a nonce the tracker does
\* not hold.
AddsNew(t) ==
    /\ thr[t].pc = "in"
    /\ thr[t].op = "AddNonce"
    /\ thr'[t].pc = "unlock"
    /\ thr[t].nonce \notin DOMAIN nt.nonces

Old(ns, n, t) == t - ns[n] > NonceCleanupInterval

C32_Step ==
    \A t \in Threads :
        AddsNew(t) =>
            /\ thr[t].nonce \in DOMAIN nt'.nonces
            /\ nt'.nonces[thr[t].nonce] = now
            /\ \A n \in DOMAIN nt.nonces :
                  IF GetCount(nt.nonces) >= nt.maxSize /\ Old(nt.nonces, n, now)
                  THEN n \notin DOMAIN nt'.nonces
                  ELSE n \in DOMAIN nt'.nonces /\ nt'.nonces[n] = nt.nonces[n]

\* C32: AddNonce with a new nonce on a tracker that holds maxSize entries or
\* more sweeps before it inserts, so that afterwards no entry older than
\* cleanupInterval remains, the younger ones remain and the new nonce is
\* present; on a tracker below maxSize it removes nothing.
C32_AtCapacitySweep == [][C32_Step]_vars

\* AddNonce found the tracker at its maxSize and left fewer entries than it
\* found plus the one it added: its sweep removed one.
C32_Witness ==
    \E t \in Threads :
        /\ thr[t].pc = "unlock"
        /\ thr[t].op = "AddNonce"
        /\ thr[t].err = NoError
        /\ thr[t].count >= nt.maxSize
        /\ GetCount(nt.nonces) < thr[t].count + 1

\* A background sweep: the sweeper runs cleanupOldNonces under the mutex.
BackgroundSweep ==
    /\ thr[Sweeper].pc = "in"
    /\ thr'[Sweeper].pc = "unlock"

C33_NoSweepAfterStop == (nt.stopped /\ BackgroundSweep) => nt'.nonces = nt.nonces

C33_StillWorking ==
    \A t \in Threads :
        (nt.stopped /\ thr[t].pc = "in" /\ thr'[t].pc = "unlock") =>
            /\ thr[t].op = "AddNonce" =>
                  nt'.nonces = NonceTracker_AddNonce(nt.maxSize, nt.nonces, thr[t].nonce, now).nonces
            /\ thr[t].op = "GetCount" => thr'[t].count = GetCount(nt.nonces)
            /\ thr[t].op = "Reset" => nt'.nonces = << >>

\* C33: after Stop the sweeper goroutine returns, and from Stop on no
\* background sweep changes the tracker, while AddNonce, GetCount and Reset
\* do what they did before; Stop ends without a panic whatever the state of
\* the tracker, a stopped one included.
C33_StoppableSweeper ==
    /\ [](\A t \in Threads : thr[t].pc # "panicked")
    /\ [][C33_NoSweepAfterStop /\ C33_StillWorking]_vars
    /\ (nt.stopped ~> thr[Sweeper].pc = "done")

C34_Step ==
    /\ \A p \in Callers :
          /\ ( /\ pc'[p] # pc[p]
               /\ pc[p] \in {"enc_test", "enc_body", "create_rest"} \/ pc'[p] = "enc_test" )
             => nonces' = nonces
          /\ (pc[p] = "create_rest" /\ pc'[p] = "idle")
             => \A m \in wire' \ wire : m.Nonce \notin DOMAIN nonces'
    /\ \A n \in DOMAIN nonces' \ DOMAIN nonces :
          \E p \in Callers :
              pc[p] = "ver_nonce" /\ pc'[p] # "ver_nonce" /\ msg[p].Nonce = n

\* C34: no step of CreateSecureMessage changes the nonce tracker, the nonce of
\* the envelope it returns is not in the tracker, and a nonce enters the
\* tracker only in the nonce step of a verification of an envelope that
\* carries it.
C34_SendPathFrame == [][C34_Step]_vars

\* An envelope has been constructed while the tracker held the nonce of an
\* earlier one, and its own nonce is not in the tracker.
C34_Witness ==
    /\ nonces # << >>
    /\ \E m \in wire : m.Nonce \notin DOMAIN nonces
    /\ pc[1] = "idle"
    /\ ret[1].op = "create"

\* The call caller p has returned from verified an envelope off the wire whose
\* nonce no earlier call had presented and no other caller's call carries:
\* one of a set of valid, fresh envelopes with pairwise distinct nonces, each
\* verified once.
OneOfDistinct(p) ==
    /\ Returned(p)
    /\ WellBuilt(msg[p])
    /\ unseen[p]
    /\ ~TimestampOutOfRange(msg[p].Timestamp, Unix(now))
    /\ \A q \in Callers \ {p} : msg[q] = NoMessage \/ msg[q].Nonce # msg[p].Nonce

\* C35: of valid, fresh envelopes with pairwise distinct nonces, each verified
\* once, every one is accepted whatever the order and the interleaving of the
\* verifications, and the tracker holds the nonce of every one of them, the
\* same set for every order.
C35_AnyOrderAccepted ==
    \A p \in Callers :
        OneOfDistinct(p) =>
            /\ ret[p].err = NoError
            /\ msg[p] \in accepted
            /\ msg[p].Nonce \in DOMAIN nonces

\* The locks goroutine t holds.
HoldsTracker(t) == t \in nt.w \cup nt.readers
HoldsRateLimit(t) == t \in rateLimitMutex

\* C36: no goroutine is at a MAC, signature, encryption or decryption step
\* while it holds the tracker's mutex or rateLimitMutex, and a goroutine that
\* holds one of them stands inside the method that took it, whose statements
\* between lock and unlock are operations on the map.
C36_NoCryptoUnderLock ==
    \A t \in Threads \cup {Sweeper} :
        /\ thr[t].pc = "crypto" => ~HoldsTracker(t) /\ ~HoldsRateLimit(t)
        /\ HoldsTracker(t) => thr[t].pc \in {"drain", "in", "unlock"}
        /\ HoldsRateLimit(t) => thr[t].pc \in {"rl_in", "rl_unlock"}

\* A goroutine that has left AddNonce computes the checks of its envelope while
\* another goroutine is inside a critical section of the tracker.
C36_Witness ==
    \E t, u \in Threads \cup {Sweeper} :
        /\ t # u
        /\ thr[t].pc = "crypto"
        /\ thr[t].op = "Verify"
        /\ thr[t].nonce \in DOMAIN nt.nonces
        /\ thr[u].pc = "in"

\* Goroutine t is inside a call that needs the tracker's mutex.
InLockedCall(t) == thr[t].pc \in {"lock", "rlock", "drain", "in", "unlock"}

\* C37: whatever the interleaving of AddNonce calls, at-capacity sweeps under
\* the caller's lock, background sweeps, ClearOldNonces, GetCount and Reset,
\* every call that needs the tracker's mutex acquires it, completes and
\* releases it, and the writer is alone in the mutex.
C37_DeadlockFree ==
    /\ \A t \in Threads \cup {Sweeper} : InLockedCall(t) ~> ~InLockedCall(t)
    /\ [](\A t \in nt.w :
            thr[t].pc \in {"in", "unlock"} => nt.readers = {} /\ nt.w = {t})

\* An AddNonce that found the tracker at capacity holds the mutex after its
\* sweep while the background sweeper waits for it.
C37_Witness ==
    \E t \in Threads :
        /\ thr[t].pc = "unlock"
        /\ thr[t].op = "AddNonce"
        /\ thr[t].count >= nt.maxSize
        /\ thr[Sweeper].pc = "lock"

\* A call stands before ConcurrencyCheck's test of the value it loaded.
Arriving == \E p \in Callers : pc[p] \in {"enc_test", "dec_test"}

C38_Step ==
    \A p \in Callers :
        /\ pc'[p] \in {"enc_test", "dec_test"} /\ pc[p] # pc'[p]
           => current'[p] = Cardinality(InFlight)
        /\ ( /\ pc[p] \in {"enc_test", "dec_test"}
             /\ pc'[p] # pc[p]
             /\ current[p] < maxConcurrentOps )
           => /\ pc'[p] \in {"enc_body", "dec_body"}
              /\ concurrentOps' = concurrentOps + 1
        /\ (pc[p] \in {"enc_body", "dec_body"} /\ pc'[p] # pc[p])
           => concurrentOps' = concurrentOps - 1

\* C38: every admitted AESEncrypt and AESDecrypt completes and gives its slot
\* back, so that concurrentOps returns to 0 and stays there once no further
\* call arrives, and a call that finds fewer than maxConcurrentOps operations
\* in flight is admitted.
C38_DenialTransient ==
    /\ \A p \in Callers : (p \in InFlight) ~> (p \notin InFlight)
    /\ (<>[](~Arriving)) => <>[](concurrentOps = 0)
    /\ [](InFlight = {} => concurrentOps = 0)
    /\ [][C38_Step]_vars

\* After a denial, with no operation in flight, a call of the denied caller
\* was admitted and has completed: the caller's verification returned nil.
C38_Witness ==
    \E p, q \in Callers :
        /\ p # q
        /\ Returned(p) /\ ret[p].err = errDecrypt(errConcurrency)
        /\ Returned(q) /\ ret[q].err = NoError
        /\ concurrentOps = 0

\* C39: PKCS7Pad(d) is d followed by k bytes of value k, with k between 1 and
\* 16, a whole block when len(d) is a multiple of 16, so that its length is a
\* positive multiple of 16; and PKCS7Unpad of it returns d and no error.
C39_PaddingRoundTrip ==
    /\ padCall.op = "pad" =>
          LET d == padCall.data
              o == padCall.out.data
              k == Len(o) - Len(d)
          IN  /\ Len(o) > 0
              /\ Len(o) % 16 = 0
              /\ k \in 1 .. 16
              /\ Len(d) % 16 = 0 => k = 16
              /\ SubSeq(o, 1, Len(d)) = d
              /\ \A i \in Len(d) + 1 .. Len(o) : o[i] = k
    /\ (padCall.op = "unpad" /\ padCall.padded) =>
          padCall.out = [kind |-> "ok", data |-> padCall.orig, err |-> ""]

\* A whole block of bytes that are themselves the pad count of a whole block
\* has come back from the round trip.
C39_Witness ==
    /\ padCall.op = "unpad"
    /\ padCall.padded
    /\ padCall.orig = Repeat(16, BlockSize)
    /\ padCall.out.data = padCall.orig

\* The inputs of PKCS7Unpad that no PKCS7Pad returns as its padding: empty,
\* last byte 0 or above 16, shorter than the pad count of its last byte, or
\* with a pad byte that differs from the pad count.
Malformed(data) ==
    \/ Len(data) = 0
    \/ data[Len(data)] = 0
    \/ data[Len(data)] > 16
    \/ data[Len(data)] > Len(data)
    \/ \E i \in Len(data) - data[Len(data)] + 1 .. Len(data) :
           data[i] # data[Len(data)]

\* C40: on every malformed input PKCS7Unpad returns an error value; it never
\* panics and never reads outside its argument.
C40_UnpadErrorNotPanic ==
    (padCall.op = "unpad" /\ Malformed(padCall.data)) => padCall.out.kind = "error"

====
